---- MODULE Spec2Model ----
(***************************************************************************)
(* The KYC submission pipeline of the BHAROSA backend as a state machine.  *)
(*                                                                         *)
(* The database holds the KYC records (a sequence, a record's id is its    *)
(* index) and each user's denormalized kycStatus.  Every `await` of the    *)
(* controllers is a suspension point: one action of this module is the     *)
(* code that runs when the awaited call returns, up to the next database   *)
(* operation, which is applied atomically by that action.  An external     *)
(* call (IPFS, AI service, Aries agent, ledger) changes no state of the    *)
(* backend, so its return is merged with the database operation that       *)
(* follows it; its outcome is chosen with \E.  Database operations are     *)
(* taken to succeed.                                                       *)
(*                                                                         *)
(* Time is abstract: the 5-minute timer of a pipeline may fire at any step *)
(* while it is armed, and stale[r] says that more than 10 minutes have     *)
(* passed since record r was submitted, which happens only after the timer *)
(* has fired or was cleared.                                               *)
(***************************************************************************)
EXTENDS Integers, FiniteSets, Sequences, Bags, TLC

\* Bounds of the model: the number of submissions that pass the in-flight check of
\* submitKYC, and the number of records created, in the specification of the whole
\* backend (Spec) and in the specification of concurrent submissions (SpecTwo).
MaxSubmissions == 2
MaxRecords == 1
MaxRecordsTwo == 2

Users == {"u1", "u2"}
Admin == "admin"
Callers == Users \cup {Admin}
\* A caller who sends no token.
Anonymous == "anonymous"

Environments == {"development", "production", "test"}

NonTerminal == {"submitted", "ai_processing", "ai_verified", "credential_issued"}
Statuses ==
    {"submitted", "ai_processing", "ai_verified", "credential_issued",
     "blockchain_registered", "completed", "rejected"}

VARIABLES
    records,     \* the KYCRecord collection: a sequence of documents
    kycStatus,   \* User.kycStatus of every user
    stale,       \* stale[r]: more than 10 minutes have passed since submittedAt
    pipe,        \* pipe[r]: the position of processAIVerification(r)
    timer,       \* timer[r]: the setTimeout of processAIVerification(r) and its handler
    reqs,        \* the running submitKYC request handlers (a bag of their states)
    repair,      \* the POST /fix-stuck-kyc handler
    rv,          \* the POST /api/blockchain/register handler (registerVerification)
    response,    \* the HTTP response sent by the last step, if it sent one
    nodeEnv,     \* process.env.NODE_ENV
    skipFlag,    \* process.env.SKIP_ARIES_CREDENTIAL === 'true'
    verify,      \* a call of verifyDocuments of the AI client, with its retries
    merkle,      \* the last call of createMerkleRoot: its argument and its result
    contract     \* the storage of the KYCVerification contract and the block timestamp

vars == <<records, kycStatus, stale, pipe, timer, reqs, repair, rv, response, nodeEnv,
          skipFlag, verify, merkle, contract>>

config == <<nodeEnv, skipFlag>>

RecIds == 1..Len(records)

Owner(r) == records[r].userId

(***************************************************************************)
(* Mongoose update: the fields named by f are set, the others are kept.    *)
(* The field `had` is a history field of the model, not of the schema: the *)
(* set of the statuses the document has had.                               *)
(***************************************************************************)
Upd(rec, f) ==
    [k \in DOMAIN rec |->
        IF k = "had"
        THEN IF "status" \in DOMAIN f THEN rec.had \cup {f.status} ELSE rec.had
        ELSE IF k \in DOMAIN f THEN f[k] ELSE rec[k]]

FindByIdAndUpdate(recs, id, f) == [recs EXCEPT ![id] = Upd(@, f)]

\* The uploaded artifacts of a submission (documentImages).
Artifacts == {"front", "back", "selfie"}

\* A one-way hash (SHA-256) of a value.
Hash(x) == <<"sha256", x>>

\* The integrity hashes submitKYC computes before it creates the record.
IntegrityHashes(u) ==
    [documentNumberHash |-> Hash("documentNumber"),
     userIdHash         |-> Hash(u),
     fileHashes         |-> [a \in Artifacts |-> Hash(a)],
     merkleRoot         |-> Hash([a \in Artifacts |-> Hash(a)])]

\* KYCRecord.create of submitKYC, with the schema's defaults.
NewRecord(u) ==
    [userId      |-> u,
     documentType   |-> "documentType",
     documentNumber |-> "documentNumber",
     hashes      |-> IntegrityHashes(u),
     cids        |-> {},
     ipfsEnabled |-> FALSE,
     status      |-> "submitted",
     aiStatus    |-> "pending",
     scores      |-> "none",
     reason      |-> "none",
     completedAt |-> FALSE,
     cred        |-> "none",
     ledger      |-> FALSE,
     had         |-> {"submitted"}]

\* The update documents of the controllers.
StaleRejectFields ==
    [status |-> "rejected", aiStatus |-> "failed",
     reason |-> "timeout_stale", completedAt |-> TRUE]

TimeoutFields ==
    [status |-> "rejected", aiStatus |-> "failed",
     reason |-> "timeout", completedAt |-> TRUE]

ProcessingFields == [status |-> "ai_processing", aiStatus |-> "processing"]

\* Mutant: the result of the AI call is saved without its scores.
AIResultFieldsWithoutScores(verified, ipfsData) ==
    [status      |-> IF verified THEN "ai_verified" ELSE "rejected",
     aiStatus    |-> IF verified THEN "verified" ELSE "failed",
     reason      |-> IF verified THEN "none" ELSE "ai_failed",
     cids        |-> ipfsData,
     ipfsEnabled |-> "front" \in ipfsData]

\* The update with the result of the AI call: the provider's confidenceScore and
\* faceMatchScore, and the IPFS data (ipfsData: the artifacts whose upload returned a
\* content identifier).
AIResultFields(verified, ipfsData) ==
    [status      |-> IF verified THEN "ai_verified" ELSE "rejected",
     aiStatus    |-> IF verified THEN "verified" ELSE "failed",
     scores      |-> "provider",
     reason      |-> IF verified THEN "none" ELSE "ai_failed",
     cids        |-> ipfsData,
     ipfsEnabled |-> "front" \in ipfsData]

AIErrorFields ==
    [status |-> "rejected", aiStatus |-> "failed", reason |-> "ai_error"]

MockCredentialFields == [status |-> "credential_issued", cred |-> "mock"]

RealCredentialFields == [status |-> "credential_issued", cred |-> "real"]

\* Mutant: a failed credential issuance rejects the record.
CredentialFailedRejects == [status |-> "rejected", reason |-> "credential_failed"]

CredentialFailedFields == [status |-> "ai_verified", reason |-> "credential_failed"]

BlockchainSuccessFields ==
    [status |-> "completed", ledger |-> TRUE, completedAt |-> TRUE]

\* Mutant: a failed ledger registration rejects the record.
BlockchainFailedRejects ==
    [status |-> "rejected", reason |-> "blockchain_failed"]

BlockchainFailedFields ==
    [status |-> "credential_issued", reason |-> "blockchain_failed"]

FixCredentialFields ==
    [status |-> "credential_issued", cred |-> "mock", reason |-> "none"]

\* Mutant: the manual registration takes the ledger's verification hash as merkleRoot.
RegisterVerificationRehashes ==
    [status |-> "blockchain_registered", ledger |-> TRUE,
     hashes |-> [documentNumberHash |-> Hash("documentNumber"),
                 userIdHash         |-> Hash("userId"),
                 fileHashes         |-> [a \in Artifacts |-> Hash(a)],
                 merkleRoot         |-> Hash("verification")]]

RegisterVerificationFields ==
    [status |-> "blockchain_registered", ledger |-> TRUE]

(***************************************************************************)
(* submitKYC                                                               *)
(***************************************************************************)
\* The query of KYCRecord.findOne: the in-flight records of user u.
InFlight(u) == {r \in RecIds : records[r].userId = u /\ records[r].status \in NonTerminal}

\* Mutants of the stuck test: one that ignores the status, one that ignores the age.
IsStuckAnyStatus(rec, isStale) == isStale

IsStuckAnyAge(rec, isStale) == rec.status = "ai_processing"

\* The stuck test of submitKYC: status ai_processing and elapsedMinutes > 10.
IsStuck(rec, isStale) == rec.status = "ai_processing" /\ isStale

NoResponse == [kind |-> "none"]
Conflict(r) == [kind |-> "conflict", rec |-> r, status |-> records[r].status]
Accepted(r) == [kind |-> "accepted", rec |-> r, status |-> "submitted"]

\* A request handler of submitKYC: its position, its user (req.user.id) and the record
\* it found (existingKYC) or created (kycRecord).
Request(pc, u, r) == [pc |-> pc, user |-> u, rec |-> r]

Replace(bag, old, new) == (bag (-) SetToBag({old})) (+) SetToBag({new})

\* A request arrives, findOne returns nothing: the handler goes on to create a record.
submitKYC_noneInFlight(u) ==
    /\ Len(records) + BagCardinality(reqs) < MaxSubmissions
    /\ InFlight(u) = {}
    /\ reqs' = reqs (+) SetToBag({Request("create", u, 0)})
    /\ response' = NoResponse
    /\ UNCHANGED <<records, kycStatus, stale, pipe, timer, repair, rv, config, verify, merkle, contract>>

\* A request arrives, findOne returns an in-flight record that is stuck: the handler
\* issues the update that auto-fails it.
submitKYC_foundStuck(u, r) ==
    /\ Len(records) + BagCardinality(reqs) < MaxSubmissions
    /\ r \in InFlight(u)
    /\ IsStuck(records[r], stale[r])
    /\ reqs' = reqs (+) SetToBag({Request("autoFail", u, r)})
    /\ response' = NoResponse
    /\ UNCHANGED <<records, kycStatus, stale, pipe, timer, repair, rv, config, verify, merkle, contract>>

\* A request arrives, findOne returns an in-flight record that is not stuck: 400.
submitKYC_conflict(u, r) ==
    /\ r \in InFlight(u)
    /\ ~IsStuck(records[r], stale[r])
    /\ response' = Conflict(r)
    /\ UNCHANGED <<records, kycStatus, stale, pipe, timer, reqs, repair, rv, config, verify, merkle, contract>>

\* The stuck record is auto-failed; the submission continues.
submitKYC_autoFail(q) ==
    /\ q.pc = "autoFail"
    /\ records' = FindByIdAndUpdate(records, q.rec, StaleRejectFields)
    /\ reqs' = Replace(reqs, q, Request("create", q.user, 0))
    /\ response' = NoResponse
    /\ UNCHANGED <<kycStatus, stale, pipe, timer, repair, rv, config, verify, merkle, contract>>

\* KYCRecord.create (the model creates at most maxRecords records).
submitKYC_create(q, maxRecords) ==
    /\ q.pc = "create"
    /\ Len(records) < maxRecords
    /\ records' = Append(records, NewRecord(q.user))
    /\ stale' = Append(stale, FALSE)
    /\ pipe' = Append(pipe, [pc |-> "idle", ipfs |-> {}])
    /\ timer' = Append(timer, "off")
    /\ reqs' = Replace(reqs, q, Request("updateUser", q.user, Len(records) + 1))
    /\ response' = NoResponse
    /\ UNCHANGED <<kycStatus, repair, rv, config, verify, merkle, contract>>

\* User.findByIdAndUpdate, then processAIVerification is started (its timer is set
\* and its first update is issued) and the response is sent.
submitKYC_updateUser(q) ==
    /\ q.pc = "updateUser"
    /\ kycStatus' = [kycStatus EXCEPT ![q.user] = "in_progress"]
    /\ pipe' = [pipe EXCEPT ![q.rec].pc = "setProcessing"]
    /\ timer' = [timer EXCEPT ![q.rec] = "armed"]
    /\ reqs' = reqs (-) SetToBag({q})
    /\ response' = Accepted(q.rec)
    /\ UNCHANGED <<records, stale, repair, rv, config, verify, merkle, contract>>

(***************************************************************************)
(* processAIVerification and its timeout handler                           *)
(***************************************************************************)
\* Mutant: the pipeline never clears its timer.
ClearTimeoutForgotten(t) == t

\* Mutant: the timer is restarted where the pipeline should cancel it.
ClearTimeoutRestarts(t) == IF t \in {"armed", "cleared"} THEN "armed" ELSE t

\* clearTimeout cancels a timer that has not fired; a handler that has started runs on.
ClearTimeout(t) == IF t = "armed" THEN "cleared" ELSE t

\* The timer fires 5 minutes after the pipeline started, unless it was cleared.
timeout_fire(r) ==
    /\ timer[r] = "armed"
    /\ timer' = [timer EXCEPT ![r] = "update"]
    /\ response' = NoResponse
    /\ UNCHANGED <<records, kycStatus, stale, pipe, reqs, repair, rv, config, verify, merkle, contract>>

\* The handler's KYCRecord.findByIdAndUpdate.
timeout_update(r) ==
    /\ timer[r] = "update"
    /\ records' = FindByIdAndUpdate(records, r, TimeoutFields)
    /\ timer' = [timer EXCEPT ![r] = "updateUser"]
    /\ response' = NoResponse
    /\ UNCHANGED <<kycStatus, stale, pipe, reqs, repair, rv, config, verify, merkle, contract>>

\* The handler's findById and User.findByIdAndUpdate.
timeout_updateUser(r) ==
    /\ timer[r] = "updateUser"
    /\ kycStatus' = [kycStatus EXCEPT ![Owner(r)] = "rejected"]
    /\ timer' = [timer EXCEPT ![r] = "done"]
    /\ response' = NoResponse
    /\ UNCHANGED <<records, stale, pipe, reqs, repair, rv, config, verify, merkle, contract>>

\* "Update status to processing".
processAIVerification_setProcessing(r) ==
    /\ pipe[r].pc = "setProcessing"
    /\ records' = FindByIdAndUpdate(records, r, ProcessingFields)
    /\ pipe' = [pipe EXCEPT ![r].pc = "upload"]
    /\ response' = NoResponse
    /\ UNCHANGED <<kycStatus, stale, timer, reqs, repair, rv, config, verify, merkle, contract>>

\* uploadMultipleToIPFS returns (it catches every upload error) with a content
\* identifier for the artifacts of `uploaded`, kept in the local ipfsData; then the
\* second "ai_processing" update is applied.
processAIVerification_upload(r, uploaded) ==
    /\ pipe[r].pc = "upload"
    /\ records' = FindByIdAndUpdate(records, r, ProcessingFields)
    /\ pipe' = [pipe EXCEPT ![r] = [pc |-> "ai", ipfs |-> uploaded]]
    /\ response' = NoResponse
    /\ UNCHANGED <<kycStatus, stale, timer, reqs, repair, rv, config, verify, merkle, contract>>

\* The AI call returns a result; the result is saved with the IPFS data and the timer
\* is cleared (ipfsData is not read again).
processAIVerification_aiResult(r, verified) ==
    /\ pipe[r].pc = "ai"
    /\ records' = FindByIdAndUpdate(records, r, AIResultFields(verified, pipe[r].ipfs))
    /\ timer' = [timer EXCEPT ![r] = ClearTimeout(@)]
    /\ pipe' = [pipe EXCEPT ![r] = [pc   |-> IF verified THEN "credential" ELSE "rejectUser",
                                    ipfs |-> {}]]
    /\ response' = NoResponse
    /\ UNCHANGED <<kycStatus, stale, reqs, repair, rv, config, verify, merkle, contract>>

\* The AI call throws: the catch block clears the timer and issues its update.
processAIVerification_aiThrows(r) ==
    /\ pipe[r].pc = "ai"
    /\ timer' = [timer EXCEPT ![r] = ClearTimeout(@)]
    /\ pipe' = [pipe EXCEPT ![r] = [pc |-> "catch", ipfs |-> {}]]
    /\ response' = NoResponse
    /\ UNCHANGED <<records, kycStatus, stale, reqs, repair, rv, config, verify, merkle, contract>>

\* The update of the catch block.
processAIVerification_catch(r) ==
    /\ pipe[r].pc = "catch"
    /\ records' = FindByIdAndUpdate(records, r, AIErrorFields)
    /\ pipe' = [pipe EXCEPT ![r].pc = "done"]
    /\ response' = NoResponse
    /\ UNCHANGED <<kycStatus, stale, timer, reqs, repair, rv, config, verify, merkle, contract>>

\* AI said "not verified": the user's status follows.
processAIVerification_rejectUser(r) ==
    /\ pipe[r].pc = "rejectUser"
    /\ kycStatus' = [kycStatus EXCEPT ![Owner(r)] = "rejected"]
    /\ pipe' = [pipe EXCEPT ![r].pc = "done"]
    /\ response' = NoResponse
    /\ UNCHANGED <<records, stale, timer, reqs, repair, rv, config, verify, merkle, contract>>

(***************************************************************************)
(* issueAriesCredential                                                    *)
(***************************************************************************)
SkipAries == skipFlag \/ nodeEnv = "development"

\* Mutant: the skip test is forgotten and the issuer is always called.
CredentialFieldsNeverSkipped(ariesOk) ==
    IF ariesOk THEN RealCredentialFields
    ELSE IF nodeEnv = "development" THEN MockCredentialFields
    ELSE CredentialFailedFields

\* The update issueAriesCredential applies: the mock credential when Aries is skipped,
\* the credential when createConnectionInvitation returns, and in the catch block the
\* mock credential in development, the failure note otherwise.
CredentialFields(ariesOk) ==
    IF SkipAries THEN MockCredentialFields
    ELSE IF ariesOk THEN RealCredentialFields
    ELSE IF nodeEnv = "development" THEN MockCredentialFields
    ELSE CredentialFailedFields

issueAriesCredential(r, ariesOk) ==
    /\ pipe[r].pc = "credential"
    /\ records' = FindByIdAndUpdate(records, r, CredentialFields(ariesOk))
    /\ pipe' = [pipe EXCEPT ![r].pc =
                  IF CredentialFields(ariesOk) = CredentialFailedFields
                  THEN "done" ELSE "blockchainFind"]
    /\ response' = NoResponse
    /\ UNCHANGED <<kycStatus, stale, timer, reqs, repair, rv, config, verify, merkle, contract>>

(***************************************************************************)
(* registerOnBlockchain                                                    *)
(***************************************************************************)
\* findById, then the ledger call is issued.
registerOnBlockchain_find(r) ==
    /\ pipe[r].pc = "blockchainFind"
    /\ pipe' = [pipe EXCEPT ![r].pc = "blockchainCall"]
    /\ response' = NoResponse
    /\ UNCHANGED <<records, kycStatus, stale, timer, reqs, repair, rv, config, verify, merkle, contract>>

\* registerKYCOnBlockchain returns: the record is completed.
registerOnBlockchain_success(r) ==
    /\ pipe[r].pc = "blockchainCall"
    /\ records' = FindByIdAndUpdate(records, r, BlockchainSuccessFields)
    /\ pipe' = [pipe EXCEPT ![r].pc = "verifyUser"]
    /\ response' = NoResponse
    /\ UNCHANGED <<kycStatus, stale, timer, reqs, repair, rv, config, verify, merkle, contract>>

\* registerKYCOnBlockchain throws: the catch block's update.
registerOnBlockchain_failure(r) ==
    /\ pipe[r].pc = "blockchainCall"
    /\ records' = FindByIdAndUpdate(records, r, BlockchainFailedFields)
    /\ pipe' = [pipe EXCEPT ![r].pc = "done"]
    /\ response' = NoResponse
    /\ UNCHANGED <<kycStatus, stale, timer, reqs, repair, rv, config, verify, merkle, contract>>

\* User.findByIdAndUpdate after the completed update.
registerOnBlockchain_updateUser(r) ==
    /\ pipe[r].pc = "verifyUser"
    /\ kycStatus' = [kycStatus EXCEPT ![Owner(r)] = "verified"]
    /\ pipe' = [pipe EXCEPT ![r].pc = "done"]
    /\ response' = NoResponse
    /\ UNCHANGED <<records, stale, timer, reqs, repair, rv, config, verify, merkle, contract>>

(***************************************************************************)
(* POST /api/admin/fix-stuck-kyc                                           *)
(***************************************************************************)
\* Mutant: the query of the repair operation without its status filter.
StuckRecordsAnyStatus == {r \in RecIds : records[r].reason # "none"}

\* The query of the repair operation: ai_verified with a rejectionReason.
StuckRecords == {r \in RecIds : records[r].status = "ai_verified" /\ records[r].reason # "none"}

\* The ids of a set in ascending order.
RECURSIVE SeqOf(_)
SeqOf(S) ==
    IF S = {} THEN <<>>
    ELSE LET m == CHOOSE x \in S : \A y \in S : x <= y
         IN <<m>> \o SeqOf(S \ {m})

\* Mutant: the loop ends after its first record.
FixNextAbandons(rp) ==
    [pc |-> "idle", queue |-> <<>>, fixed |-> {}, failed |-> {}, caller |-> "none"]

\* The loop moves to its next record, or it ends.
FixNext(rp) ==
    IF Len(rp.queue) > 1
    THEN [rp EXCEPT !.queue = Tail(@), !.pc = "credential"]
    ELSE [pc |-> "idle", queue |-> <<>>, fixed |-> {}, failed |-> {}, caller |-> "none"]

\* The response of the repair operation, sent when the loop ends.
FixResponse(rp) ==
    IF Len(rp.queue) > 1 THEN NoResponse
    ELSE [kind |-> "fixed", fixed |-> rp.fixed, failed |-> rp.failed]

\* KYCRecord.find; the loop issues the first record's credential update.  The route
\* has no authentication or authorization middleware: the request of any caller is
\* served.
fixStuckKyc_find(caller) ==
    /\ repair.pc = "idle"
    /\ StuckRecords # {}
    /\ repair' = [pc |-> "credential", queue |-> SeqOf(StuckRecords),
                  fixed |-> {}, failed |-> {}, caller |-> caller]
    /\ response' = NoResponse
    /\ UNCHANGED <<records, kycStatus, stale, pipe, timer, reqs, rv, config, verify, merkle, contract>>

\* KYCRecord.find returns no record: the loop is empty and the response is sent.
fixStuckKyc_none ==
    /\ repair.pc = "idle"
    /\ StuckRecords = {}
    /\ response' = [kind |-> "fixed", fixed |-> {}, failed |-> {}]
    /\ UNCHANGED <<records, kycStatus, stale, pipe, timer, reqs, repair, rv, config, verify, merkle, contract>>

\* The mock credential update.
fixStuckKyc_credential ==
    /\ repair.pc = "credential"
    /\ records' = FindByIdAndUpdate(records, Head(repair.queue), FixCredentialFields)
    /\ repair' = [repair EXCEPT !.pc = "blockchainCall"]
    /\ response' = NoResponse
    /\ UNCHANGED <<kycStatus, stale, pipe, timer, reqs, rv, config, verify, merkle, contract>>

\* registerKYCOnBlockchain returns: the completed update.
fixStuckKyc_success ==
    /\ repair.pc = "blockchainCall"
    /\ records' = FindByIdAndUpdate(records, Head(repair.queue), BlockchainSuccessFields)
    /\ repair' = [repair EXCEPT !.pc = "verifyUser"]
    /\ response' = NoResponse
    /\ UNCHANGED <<kycStatus, stale, pipe, timer, reqs, rv, config, verify, merkle, contract>>

\* registerKYCOnBlockchain throws: the record goes to the failed list.
fixStuckKyc_failure ==
    /\ repair.pc = "blockchainCall"
    /\ repair' = FixNext([repair EXCEPT !.failed = @ \cup {Head(repair.queue)}])
    /\ response' = FixResponse([repair EXCEPT !.failed = @ \cup {Head(repair.queue)}])
    /\ UNCHANGED <<records, kycStatus, stale, pipe, timer, reqs, rv, config, verify, merkle, contract>>

\* User.findByIdAndUpdate; the record goes to the fixed list.
fixStuckKyc_updateUser ==
    /\ repair.pc = "verifyUser"
    /\ kycStatus' = [kycStatus EXCEPT ![Owner(Head(repair.queue))] = "verified"]
    /\ repair' = FixNext([repair EXCEPT !.fixed = @ \cup {Head(repair.queue)}])
    /\ response' = FixResponse([repair EXCEPT !.fixed = @ \cup {Head(repair.queue)}])
    /\ UNCHANGED <<records, stale, pipe, timer, reqs, rv, config, verify, merkle, contract>>

(***************************************************************************)
(* POST /api/blockchain/register (registerVerification)                    *)
(***************************************************************************)
\* The caller owns the record or is an admin.
MayRegister(caller, r) == caller = Owner(r) \/ caller = Admin

\* findById; a caller who may not register the record gets 403 and a record that has
\* a transaction hash gets 400 (neither changes any state); otherwise the ledger call
\* is issued.
registerVerification_find(caller, r) ==
    /\ rv.pc = "idle"
    /\ MayRegister(caller, r)
    /\ ~records[r].ledger
    /\ rv' = [pc |-> "blockchainCall", rec |-> r]
    /\ response' = NoResponse
    /\ UNCHANGED <<records, kycStatus, stale, pipe, timer, reqs, repair, config, verify, merkle, contract>>

\* registerKYCOnBlockchain returns: kycRecord.save().
registerVerification_save ==
    /\ rv.pc = "blockchainCall"
    /\ records' = FindByIdAndUpdate(records, rv.rec, RegisterVerificationFields)
    /\ rv' = [pc |-> "idle", rec |-> 0]
    /\ response' = NoResponse
    /\ UNCHANGED <<kycStatus, stale, pipe, timer, reqs, repair, config, verify, merkle, contract>>

\* registerKYCOnBlockchain throws: status 500.
registerVerification_failure ==
    /\ rv.pc = "blockchainCall"
    /\ rv' = [pc |-> "idle", rec |-> 0]
    /\ response' = NoResponse
    /\ UNCHANGED <<records, kycStatus, stale, pipe, timer, reqs, repair, config, verify, merkle, contract>>

(***************************************************************************)
(* The ledger interface: registerKYCOnBlockchain and its callers' payloads *)
(***************************************************************************)
\* The IPFS content ids a caller adds to its payload when the record has them.
WithIpfsCIDs(rec, data) ==
    IF rec.ipfsEnabled THEN data @@ [ipfsCIDs |-> rec.cids] ELSE data

\* blockchainData of registerOnBlockchain.
BlockchainData(rec) ==
    WithIpfsCIDs(rec,
        [documentType       |-> rec.documentType,
         documentNumber     |-> rec.documentNumber,
         documentNumberHash |-> rec.hashes.documentNumberHash,
         userIdHash         |-> rec.hashes.userIdHash,
         fileHashes         |-> rec.hashes.fileHashes,
         merkleRoot         |-> rec.hashes.merkleRoot,
         aiConfidence       |-> rec.scores,
         faceMatchScore     |-> rec.scores])

\* blockchainData of the repair operation: scores that are missing get defaults.
FixBlockchainData(rec) ==
    WithIpfsCIDs(rec,
        [documentType       |-> rec.documentType,
         documentNumber     |-> rec.documentNumber,
         documentNumberHash |-> rec.hashes.documentNumberHash,
         userIdHash         |-> rec.hashes.userIdHash,
         fileHashes         |-> rec.hashes.fileHashes,
         merkleRoot         |-> rec.hashes.merkleRoot,
         aiConfidence       |-> IF rec.scores = "none" THEN "default" ELSE rec.scores,
         faceMatchScore     |-> IF rec.scores = "none" THEN "default" ELSE rec.scores])

\* hashData of registerKYCOnBlockchain: the fields it reads from verificationData.
HashData(userId, verificationData) ==
    [k \in {"userIdHash", "documentNumberHash", "documentType", "aiConfidence",
            "faceMatchScore", "ipfs", "fileHashes", "merkleRoot"}
          \cap (DOMAIN verificationData \cup {"userIdHash"}
                \cup IF "ipfsCIDs" \in DOMAIN verificationData THEN {"ipfs"} ELSE {}) |->
        IF k = "ipfs" THEN verificationData.ipfsCIDs
        ELSE IF k = "userIdHash" /\ k \notin DOMAIN verificationData THEN Hash(userId)
        ELSE verificationData[k]]

\* The arguments of contract.registerVerification: the values committed on-chain.
OnChain(userId, verificationData) ==
    <<<<"keccak256", HashData(userId, verificationData)>>, userId,
      verificationData.documentType>>

(***************************************************************************)
(* verifyDocuments of the AI client                                        *)
(***************************************************************************)
MAX_RETRIES == 2

\* The documents argument: usable, a path that is missing, or a file that is not on
\* the filesystem.
Documents == {"ok", "frontMissing", "selfieMissing", "frontNotFound", "selfieNotFound"}

\* What a call of axios.post ends with: a response below 400, a 4xx response (the
\* call resolves: validateStatus), a 5xx response (the call rejects with
\* error.response) or a network error with its error.code.
ProviderOutcomes ==
    {"verified", "unverified", "4xx", "5xx", "ECONNREFUSED", "ETIMEDOUT", "ECONNABORTED"}

\* No call of verifyDocuments is running.
VerifyIdle == [pc |-> "idle", retryCount |-> 0, log |-> <<>>, out |-> "none"]

\* Mutant: one retry more than MAX_RETRIES.
MayRetryOnceMore(retryCount) == retryCount <= MAX_RETRIES

\* The retry guard of the catch block.
MayRetry(retryCount) == retryCount < MAX_RETRIES

\* What the function does with an outcome of axios.post at a retry count: it
\* returns the transformed result, waits to retry, or throws.
AfterOutcome(o, retryCount) ==
    CASE o = "verified"   -> [pc |-> "returned", out |-> "verified"]
      [] o = "unverified" -> [pc |-> "returned", out |-> "unverified"]
      [] o = "4xx"        -> [pc |-> "thrown", out |-> "Failed to verify documents"]
      [] o = "5xx"        -> IF MayRetry(retryCount)
                             THEN [pc |-> "backoff", out |-> "none"]
                             ELSE [pc |-> "thrown", out |-> "AI service error"]
      [] o \in {"ECONNREFUSED", "ETIMEDOUT"}
                          -> IF MayRetry(retryCount)
                             THEN [pc |-> "backoff", out |-> "none"]
                             ELSE [pc |-> "thrown", out |-> "AI service is not reachable"]
      [] OTHER            -> [pc |-> "thrown", out |-> "Failed to verify documents"]

\* The call: the checks of the documents argument throw inside the try block and the
\* catch block rethrows; otherwise the request is posted.
verifyDocuments_call(documents) ==
    /\ verify.pc = "idle"
    /\ verify' = IF documents = "ok"
                 THEN [verify EXCEPT !.pc = "post"]
                 ELSE [verify EXCEPT !.pc = "thrown", !.out = "Failed to verify documents"]
    /\ response' = NoResponse
    /\ UNCHANGED <<records, kycStatus, stale, pipe, timer, reqs, repair, rv, config, merkle, contract>>

\* axios.post ends (its timeout is 10 minutes) with outcome o.
verifyDocuments_post(o) ==
    /\ verify.pc = "post"
    /\ verify' = [verify EXCEPT !.log = Append(@, o),
                                !.pc = AfterOutcome(o, verify.retryCount).pc,
                                !.out = AfterOutcome(o, verify.retryCount).out]
    /\ response' = NoResponse
    /\ UNCHANGED <<records, kycStatus, stale, pipe, timer, reqs, repair, rv, config, merkle, contract>>

\* The backoff delay has passed: verifyDocuments(..., retryCount + 1) posts again.
verifyDocuments_retry ==
    /\ verify.pc = "backoff"
    /\ verify' = [verify EXCEPT !.pc = "post", !.retryCount = @ + 1]
    /\ response' = NoResponse
    /\ UNCHANGED <<records, kycStatus, stale, pipe, timer, reqs, repair, rv, config, merkle, contract>>

(***************************************************************************)
(* createMerkleRoot                                                        *)
(***************************************************************************)
MaxLeaves == 5

\* left + right: the concatenation of two hashes, strings of one length.
Concat(left, right) == left \o right

\* Mutant: a level pads an odd length with the hash of the sentinel.
RightSentinel(hashes, i) ==
    IF i + 1 <= Len(hashes) THEN hashes[i + 1] ELSE Hash("empty")

\* hashes[i + 1] || left: the right of the pair that starts at position i.
Right(hashes, i) ==
    IF i + 1 <= Len(hashes) THEN hashes[i + 1] ELSE hashes[i]

\* Mutant: the hash of a pair without the order of its two hashes.
PairHashUnordered(left, right) == <<"sha256", {left, right}>>

\* sha256(left + right).
PairHash(left, right) == Hash(Concat(left, right))

\* The for loop from position i on: newLevel.
RECURSIVE NewLevel(_, _)
NewLevel(hashes, i) ==
    IF i > Len(hashes) THEN <<>>
    ELSE <<PairHash(hashes[i], Right(hashes, i))>> \o NewLevel(hashes, i + 2)

RECURSIVE createMerkleRoot(_)
createMerkleRoot(hashes) ==
    IF Len(hashes) = 0 THEN Hash("empty")
    ELSE IF Len(hashes) = 1 THEN hashes[1]
    ELSE createMerkleRoot(NewLevel(hashes, 1))

\* The file hashes the function is called with (hashFile of an uploaded artifact).
Leaves == {Hash(a) : a \in Artifacts}

\* The lists of at most n elements of set S.
ListsUpTo(S, n) == UNION {[1..k -> S] : k \in 0..n}

\* A call of the function with a list of hashes.
createMerkleRoot_call(hashes) ==
    /\ merkle' = [pc |-> "returned", hashes |-> hashes, root |-> createMerkleRoot(hashes)]
    /\ response' = NoResponse
    /\ UNCHANGED <<records, kycStatus, stale, pipe, timer, reqs, repair, rv, config, verify, contract>>

(***************************************************************************)
(* The KYCVerification contract                                            *)
(***************************************************************************)
MaxTimestamp == 3
MaxVerifications == 3

\* The arguments of the contract's functions: verification hashes (bytes32(0)
\* among them), user ids (the empty string among them) and senders.
VerificationHashes == {"0x00", "0xaa", "0xbb"}
UserIds == {"", "u1", "u2"}
Senders == {"owner", "other"}

\* The value of a mapping's entry that was never written.
NoVerification ==
    [verificationHash |-> "0x00", userId |-> "", documentType |-> "", timestamp |-> 0,
     isValid |-> FALSE, verifier |-> "0x00"]

\* The storage after the constructor, deployed by the owner, in the first block.
Constructor ==
    [verifications      |-> [h \in VerificationHashes |-> NoVerification],
     userVerifications  |-> [u \in UserIds |-> <<>>],
     isUserVerified     |-> [u \in UserIds |-> FALSE],
     totalVerifications |-> 0,
     timestamp          |-> 1]

\* The three require statements of registerVerification.
MayRegisterHash(c, verificationHash, userId) ==
    /\ verificationHash # "0x00"
    /\ userId # ""
    /\ ~c.verifications[verificationHash].isValid

\* The storage after registerVerification; a failed require reverts.
Registered(c, sender, verificationHash, userId, documentType) ==
    IF ~MayRegisterHash(c, verificationHash, userId) THEN c
    ELSE [c EXCEPT
            !.verifications[verificationHash] =
                [verificationHash |-> verificationHash, userId |-> userId,
                 documentType |-> documentType, timestamp |-> c.timestamp,
                 isValid |-> TRUE, verifier |-> sender],
            !.userVerifications[userId] = Append(@, verificationHash),
            !.isUserVerified[userId] = TRUE,
            !.totalVerifications = @ + 1]

\* hasOtherValid of revokeVerification: the loop over the user's hashes, read in
\* storage c (after isValid of the revoked hash was cleared).
HasOtherValid(c, userId) ==
    \E i \in 1..Len(c.userVerifications[userId]) :
        c.verifications[c.userVerifications[userId][i]].isValid

\* The storage after revokeVerification; onlyOwner or a failed require reverts.
Revoked(c, sender, verificationHash) ==
    IF sender # "owner" \/ ~c.verifications[verificationHash].isValid THEN c
    ELSE LET cleared == [c EXCEPT !.verifications[verificationHash].isValid = FALSE]
             userId  == c.verifications[verificationHash].userId
         IN [cleared EXCEPT !.isUserVerified[userId] = HasOtherValid(cleared, userId)]

\* isVerified(userId).
isVerified(userId) == contract.isUserVerified[userId]

\* A transaction that calls registerVerification.
contract_registerVerification(sender, verificationHash, userId, documentType) ==
    /\ contract.totalVerifications < MaxVerifications
    /\ contract' = Registered(contract, sender, verificationHash, userId, documentType)
    /\ response' = NoResponse
    /\ UNCHANGED <<records, kycStatus, stale, pipe, timer, reqs, repair, rv, config,
                   verify, merkle>>

\* A transaction that calls revokeVerification.
contract_revokeVerification(sender, verificationHash) ==
    /\ contract' = Revoked(contract, sender, verificationHash)
    /\ response' = NoResponse
    /\ UNCHANGED <<records, kycStatus, stale, pipe, timer, reqs, repair, rv, config,
                   verify, merkle>>

\* A later block: block.timestamp grows.
contract_block ==
    /\ contract.timestamp < MaxTimestamp
    /\ contract' = [contract EXCEPT !.timestamp = @ + 1]
    /\ response' = NoResponse
    /\ UNCHANGED <<records, kycStatus, stale, pipe, timer, reqs, repair, rv, config,
                   verify, merkle>>

(***************************************************************************)
(* Time                                                                    *)
(***************************************************************************)
\* More than 10 minutes have passed since the record was submitted.  The age of a
\* record is read only while the record is in flight.
Tick(r) ==
    /\ ~stale[r]
    /\ timer[r] \notin {"off", "armed"}
    /\ records[r].status \in NonTerminal
    /\ stale' = [stale EXCEPT ![r] = TRUE]
    /\ response' = NoResponse
    /\ UNCHANGED <<records, kycStatus, pipe, timer, reqs, repair, rv, config, verify, merkle, contract>>

Init ==
    /\ records = <<>>
    /\ kycStatus = [u \in Users |-> "pending"]
    /\ stale = <<>>
    /\ pipe = <<>>
    /\ timer = <<>>
    /\ reqs = EmptyBag
    /\ repair = [pc |-> "idle", queue |-> <<>>, fixed |-> {}, failed |-> {},
                 caller |-> "none"]
    /\ rv = [pc |-> "idle", rec |-> 0]
    /\ response = NoResponse
    /\ nodeEnv \in Environments
    /\ skipFlag \in BOOLEAN
    /\ verify = VerifyIdle
    /\ merkle = [pc |-> "idle", hashes |-> <<>>, root |-> <<>>]
    /\ contract = Constructor

\* The steps of submitKYC, for the users of set U and at most maxRecords records.
submitKYC(U, maxRecords) ==
    \/ \E u \in U : submitKYC_noneInFlight(u)
    \/ \E u \in U, r \in RecIds : submitKYC_foundStuck(u, r)
    \/ \E u \in U, r \in RecIds : submitKYC_conflict(u, r)
    \/ \E q \in BagToSet(reqs) : submitKYC_autoFail(q)
    \/ \E q \in BagToSet(reqs) : submitKYC_create(q, maxRecords)
    \/ \E q \in BagToSet(reqs) : submitKYC_updateUser(q)

\* The steps of the background pipeline of a record and of its timeout handler, for
\* the upload outcomes of set uploads.
processAIVerification(uploads) ==
    \/ \E r \in RecIds : Tick(r)
    \/ \E r \in RecIds : timeout_fire(r)
    \/ \E r \in RecIds : timeout_update(r)
    \/ \E r \in RecIds : timeout_updateUser(r)
    \/ \E r \in RecIds : processAIVerification_setProcessing(r)
    \/ \E r \in RecIds, uploaded \in uploads : processAIVerification_upload(r, uploaded)
    \/ \E r \in RecIds, verified \in BOOLEAN : processAIVerification_aiResult(r, verified)
    \/ \E r \in RecIds : processAIVerification_aiThrows(r)
    \/ \E r \in RecIds : processAIVerification_catch(r)
    \/ \E r \in RecIds : processAIVerification_rejectUser(r)
    \/ \E r \in RecIds, ariesOk \in BOOLEAN : issueAriesCredential(r, ariesOk)
    \/ \E r \in RecIds : registerOnBlockchain_find(r)
    \/ \E r \in RecIds : registerOnBlockchain_success(r)
    \/ \E r \in RecIds : registerOnBlockchain_failure(r)
    \/ \E r \in RecIds : registerOnBlockchain_updateUser(r)

\* The steps of the repair operation, for the callers of set C.
fixStuckKyc(C) ==
    \/ \E caller \in C : fixStuckKyc_find(caller)
    \/ fixStuckKyc_none
    \/ fixStuckKyc_credential
    \/ fixStuckKyc_success
    \/ fixStuckKyc_failure
    \/ fixStuckKyc_updateUser

registerVerification ==
    \/ \E caller \in Callers, r \in RecIds : registerVerification_find(caller, r)
    \/ registerVerification_save
    \/ registerVerification_failure

(***************************************************************************)
(* Spec: the whole backend, every configuration, MaxRecords records.       *)
(***************************************************************************)
Next ==
    \/ submitKYC(Users, MaxRecords)
    \/ processAIVerification(SUBSET Artifacts)
    \/ fixStuckKyc({Admin})
    \/ registerVerification

Spec == Init /\ [][Next]_vars

(***************************************************************************)
(* SpecTwo: concurrent submissions of one user, MaxRecordsTwo records, in  *)
(* the development environment, with every upload successful.  There      *)
(* issueAriesCredential always issues the mock credential, so no record is *)
(* ever left at ai_verified with a rejectionReason and the repair          *)
(* operation never finds a record.                                         *)
(***************************************************************************)
InitTwo ==
    /\ Init
    /\ nodeEnv = "development"
    /\ skipFlag = FALSE

NextTwo ==
    \/ submitKYC({"u1"}, MaxRecordsTwo)
    \/ processAIVerification({Artifacts})
    \/ registerVerification

SpecTwo == InitTwo /\ [][NextTwo]_vars
(***************************************************************************)
(* validateKYCSubmission, the middleware in front of submitKYC on the      *)
(* route POST /submit.  A character of a document number is taken by its   *)
(* class: an upper-case letter, a digit, or anything else.                 *)
(***************************************************************************)
\* n characters of class c.
Run(c, n) == [i \in 1..n |-> c]

\* One quantified character class of a pattern: [of]{min,max}.
Quantified(of, min, max) == [of |-> of, min |-> min, max |-> max]

\* The rules of each document type: the number pattern (anchored at both ends) and
\* the images it requires.  maxFileSize is counted in megabytes.
DOCUMENT_RULES ==
    [aadhaar |->
        [numberPattern |-> <<Quantified({"digit"}, 12, 12)>>,
         requiredFields |-> <<"front", "selfie">>,
         maxFileSize |-> 5, allowedFormats |-> {"image/jpeg", "image/jpg", "image/png"}],
     pan |->
        [numberPattern |-> <<Quantified({"upper"}, 5, 5), Quantified({"digit"}, 4, 4),
                             Quantified({"upper"}, 1, 1)>>,
         requiredFields |-> <<"front", "selfie">>,
         maxFileSize |-> 5, allowedFormats |-> {"image/jpeg", "image/jpg", "image/png"}],
     passport |->
        [numberPattern |-> <<Quantified({"upper"}, 1, 1), Quantified({"digit"}, 7, 7)>>,
         requiredFields |-> <<"front", "back", "selfie">>,
         maxFileSize |-> 5, allowedFormats |-> {"image/jpeg", "image/jpg", "image/png"}],
     driving_license |->
        [numberPattern |-> <<Quantified({"upper"}, 2, 2), Quantified({"digit"}, 13, 13)>>,
         requiredFields |-> <<"front", "back", "selfie">>,
         maxFileSize |-> 5, allowedFormats |-> {"image/jpeg", "image/jpg", "image/png"}],
     national_id |->
        [numberPattern |-> <<Quantified({"upper", "digit"}, 6, 20)>>,
         requiredFields |-> <<"front", "selfie">>,
         maxFileSize |-> 5, allowedFormats |-> {"image/jpeg", "image/jpg", "image/png"}]]

\* numberPattern.test(documentNumber): the whole string matches the pattern.
RECURSIVE Test(_, _)
Test(pattern, chars) ==
    IF pattern = <<>> THEN chars = <<>>
    ELSE \E k \in pattern[1].min..pattern[1].max :
            /\ k <= Len(chars)
            /\ \A i \in 1..k : chars[i] \in pattern[1].of
            /\ Test(Tail(pattern), SubSeq(chars, k + 1, Len(chars)))

\* The order in which the uploaded files are visited.
FileKeys == <<"front", "back", "selfie">>

\* Mutant of the required-image check: only the first required image is checked.
RequiredErrorsFirstOnly(documentType, files, rules) ==
    IF rules.requiredFields[1] \in DOMAIN files THEN <<>>
    ELSE <<<<"image is required", rules.requiredFields[1], documentType>>>>

\* Validation 5: one error for every required image that is missing.
RequiredErrors(documentType, files, rules) ==
    LET missing == SelectSeq(rules.requiredFields, LAMBDA field : field \notin DOMAIN files)
    IN  [i \in 1..Len(missing) |-> <<"image is required", missing[i], documentType>>]

\* Validation 6: size, format and extension errors of every uploaded file.
FileErrors(files, rules) ==
    LET Of(key) ==
            IF key \notin DOMAIN files THEN <<>>
            ELSE (IF files[key].size > rules.maxFileSize
                  THEN <<<<"exceeds maximum size", key>>>> ELSE <<>>)
              \o (IF files[key].mimetype \notin rules.allowedFormats
                  THEN <<<<"must be in one of these formats", key>>>> ELSE <<>>)
              \o (IF files[key].ext \notin {".jpg", ".jpeg", ".png"}
                  THEN <<<<"has invalid extension", key>>>> ELSE <<>>)
    IN  Of(FileKeys[1]) \o Of(FileKeys[2]) \o Of(FileKeys[3])

\* The outcome of validateKYCSubmission: the status it answers with and its list of
\* errors; status 200 stands for next().  A documentNumber that is not a string makes
\* the debug log throw, which the catch block answers with 500.
Validate(req) ==
    LET documentType == req.documentType
        documentNumber == req.documentNumber
        files == req.files
    IN  IF ~documentNumber.isString
        THEN [status |-> 500, errors |-> <<<<"TypeError">>>>]
        ELSE IF documentType = ""
        THEN [status |-> 400, errors |-> <<<<"is required", "documentType">>>>]
        ELSE IF documentNumber.chars = <<>>
        THEN [status |-> 400, errors |-> <<<<"is required", "documentNumber">>>>]
        ELSE IF documentType \notin DOMAIN DOCUMENT_RULES
        THEN [status |-> 400, errors |-> <<<<"Invalid documentType", documentType>>>>]
        ELSE LET rules == DOCUMENT_RULES[documentType] IN
             IF ~Test(rules.numberPattern, documentNumber.chars)
             THEN [status |-> 400, errors |-> <<<<"Invalid number format", documentType>>>>]
             ELSE IF DOMAIN files = {}
             THEN [status |-> 400, errors |-> <<<<"No files uploaded">>>>]
             ELSE IF RequiredErrors(documentType, files, rules) # <<>>
             THEN [status |-> 400, errors |-> RequiredErrors(documentType, files, rules)]
             ELSE IF FileErrors(files, rules) # <<>>
             THEN [status |-> 400, errors |-> FileErrors(files, rules)]
             ELSE [status |-> 200, errors |-> <<>>]

Invalid(result) == [kind |-> "invalid", status |-> result.status, errors |-> result.errors]

\* POST /submit of user u: validateKYCSubmission answers the request itself, or calls
\* next() and submitKYC runs up to its first database operation.
validateKYCSubmission(u, req) ==
    \/ /\ Validate(req).status # 200
       /\ response' = Invalid(Validate(req))
       /\ UNCHANGED <<records, kycStatus, stale, pipe, timer, reqs, repair, rv, config, verify, merkle, contract>>
    \/ /\ Validate(req).status = 200
       /\ \/ submitKYC_noneInFlight(u)
          \/ \E r \in RecIds : submitKYC_foundStuck(u, r)
          \/ \E r \in RecIds : submitKYC_conflict(u, r)

\* The requests of the model: document types (the empty string is a missing type,
\* voter_id an unrecognized one), document numbers and uploaded files.
DocumentTypes == DOMAIN DOCUMENT_RULES \cup {"", "voter_id"}

Text(chars) == [isString |-> TRUE, chars |-> chars]

DocumentNumbers ==
    {Text(<<>>),
     [isString |-> FALSE, chars |-> <<>>],
     Text(Run("digit", 12)),
     Text(Run("digit", 12) \o Run("other", 1)),
     Text(Run("upper", 5) \o Run("digit", 4) \o Run("upper", 1)),
     Text(Run("upper", 1) \o Run("digit", 7)),
     Text(Run("upper", 2) \o Run("digit", 13)),
     Text(Run("upper", 2) \o Run("digit", 19))}

Jpeg == [size |-> 1, mimetype |-> "image/jpeg", ext |-> ".jpg"]
LargeJpeg == [size |-> 6, mimetype |-> "image/jpeg", ext |-> ".jpg"]
Pdf == [size |-> 1, mimetype |-> "application/pdf", ext |-> ".pdf"]

UploadedFiles ==
    UNION {[present -> {Jpeg}] : present \in SUBSET Artifacts}
        \cup {[front |-> LargeJpeg, back |-> Jpeg, selfie |-> Jpeg],
              [front |-> LargeJpeg, selfie |-> Pdf]}

AllImages == [key \in Artifacts |-> Jpeg]

\* Every type with every number and all three images, and every file upload with
\* every type and number that pass with all three images.
Requests ==
    {req \in [documentType : DocumentTypes, documentNumber : DocumentNumbers,
              files : UploadedFiles] :
        \/ req.files = AllImages
        \/ Validate([req EXCEPT !.files = AllImages]).status = 200}

(***************************************************************************)
(* SpecValidate: the route POST /submit with its validation middleware,    *)
(* one user, MaxRecords records, the development environment, every upload *)
(* successful, and runs in which the processing timer does not fire (the   *)
(* timeout handler is part of Spec and SpecTwo).                           *)
(***************************************************************************)
NextValidate ==
    \/ \E req \in Requests : validateKYCSubmission("u1", req)
    \/ \E q \in BagToSet(reqs) : submitKYC_autoFail(q)
    \/ \E q \in BagToSet(reqs) : submitKYC_create(q, MaxRecords)
    \/ \E q \in BagToSet(reqs) : submitKYC_updateUser(q)
    \/ \E r \in RecIds : Tick(r)
    \/ \E r \in RecIds : processAIVerification_setProcessing(r)
    \/ \E r \in RecIds, uploaded \in {Artifacts} : processAIVerification_upload(r, uploaded)
    \/ \E r \in RecIds, verified \in BOOLEAN : processAIVerification_aiResult(r, verified)
    \/ \E r \in RecIds : processAIVerification_aiThrows(r)
    \/ \E r \in RecIds : processAIVerification_catch(r)
    \/ \E r \in RecIds : processAIVerification_rejectUser(r)
    \/ \E r \in RecIds, ariesOk \in BOOLEAN : issueAriesCredential(r, ariesOk)
    \/ \E r \in RecIds : registerOnBlockchain_find(r)
    \/ \E r \in RecIds : registerOnBlockchain_success(r)
    \/ \E r \in RecIds : registerOnBlockchain_failure(r)
    \/ \E r \in RecIds : registerOnBlockchain_updateUser(r)

SpecValidate == InitTwo /\ [][NextValidate]_vars

(***************************************************************************)
(* submitKYC with the document type of its request, and the schema of      *)
(* KYCRecord.  (The steps of submitKYC above are those of a request whose   *)
(* document type the schema accepts.)                                      *)
(***************************************************************************)
\* kycRecordSchema.documentType: the enum of the schema.
SchemaDocumentTypes == {"passport", "driving_license", "national_id", "aadhaar"}

\* The requests that validateKYCSubmission passes on to submitKYC.
ValidRequests == {req \in Requests : Validate(req).status = 200}

\* The answer of the catch block of submitKYC to a ValidationError of mongoose.
ValidationFailed == [kind |-> "failed", status |-> 400, errorType |-> "ValidationError"]

\* A valid request arrives, findOne returns nothing: the handler goes on to create a
\* record of the document type of the request.
submitKYC_noneInFlightOfType(u, req) ==
    /\ Validate(req).status = 200
    /\ Len(records) + BagCardinality(reqs) < MaxSubmissions
    /\ InFlight(u) = {}
    /\ reqs' = reqs (+) SetToBag({Request("create", u, 0)
                                     @@ [documentType |-> req.documentType]})
    /\ response' = NoResponse
    /\ UNCHANGED <<records, kycStatus, stale, pipe, timer, repair, rv, config, verify,
                   merkle, contract>>

\* KYCRecord.create validates the document against the schema: a document type that
\* is not in the enum makes it throw a ValidationError, which the catch block of
\* submitKYC answers with status 400; otherwise the record is created.
submitKYC_createOfType(q, maxRecords) ==
    /\ q.pc = "create"
    /\ "documentType" \in DOMAIN q
    /\ IF q.documentType \in SchemaDocumentTypes
       THEN /\ Len(records) < maxRecords
            /\ records' = Append(records, [NewRecord(q.user) EXCEPT
                                              !.documentType = q.documentType])
            /\ stale' = Append(stale, FALSE)
            /\ pipe' = Append(pipe, [pc |-> "idle", ipfs |-> {}])
            /\ timer' = Append(timer, "off")
            /\ reqs' = Replace(reqs, q, [q EXCEPT !.pc = "updateUser",
                                                  !.rec = Len(records) + 1])
            /\ response' = NoResponse
       ELSE /\ reqs' = reqs (-) SetToBag({q})
            /\ response' = ValidationFailed
            /\ UNCHANGED <<records, stale, pipe, timer>>
    /\ UNCHANGED <<kycStatus, repair, rv, config, verify, merkle, contract>>

(***************************************************************************)
(* SpecSchema: the valid submissions of user u1, of every document type    *)
(* the validator accepts, MaxRecordsTwo records, the development           *)
(* environment, every upload successful, and runs in which the processing  *)
(* timer does not fire and the ledger call succeeds.                       *)
(***************************************************************************)
NextSchema ==
    \/ \E req \in ValidRequests : submitKYC_noneInFlightOfType("u1", req)
    \/ \E r \in RecIds : submitKYC_conflict("u1", r)
    \/ \E q \in BagToSet(reqs) : submitKYC_createOfType(q, MaxRecordsTwo)
    \/ \E q \in BagToSet(reqs) : submitKYC_updateUser(q)
    \/ \E r \in RecIds : processAIVerification_setProcessing(r)
    \/ \E r \in RecIds : processAIVerification_upload(r, Artifacts)
    \/ \E r \in RecIds, verified \in BOOLEAN : processAIVerification_aiResult(r, verified)
    \/ \E r \in RecIds : processAIVerification_rejectUser(r)
    \/ \E r \in RecIds : issueAriesCredential(r, TRUE)
    \/ \E r \in RecIds : registerOnBlockchain_find(r)
    \/ \E r \in RecIds : registerOnBlockchain_success(r)
    \/ \E r \in RecIds : registerOnBlockchain_updateUser(r)

SpecSchema == InitTwo /\ [][NextSchema]_vars

(***************************************************************************)
(* SpecHappy: the runs in which the AI provider answers verified, the      *)
(* credential stage succeeds, the ledger call of the pipeline succeeds and *)
(* no timeout fires, with submissions and manual ledger registrations      *)
(* going on beside the pipeline.  Node's event loop runs every             *)
(* continuation whose awaited operation has completed, and here every      *)
(* awaited operation completes: the steps of each pipeline and of each     *)
(* request handler are weakly fair.                                        *)
(***************************************************************************)
\* The next step of the pipeline of record r.
HappyStep(r) ==
    /\ r \in RecIds
    /\ \/ processAIVerification_setProcessing(r)
       \/ \E uploaded \in SUBSET Artifacts : processAIVerification_upload(r, uploaded)
       \/ processAIVerification_aiResult(r, TRUE)
       \/ \E ariesOk \in BOOLEAN :
             /\ CredentialFields(ariesOk) # CredentialFailedFields
             /\ issueAriesCredential(r, ariesOk)
       \/ registerOnBlockchain_find(r)
       \/ registerOnBlockchain_success(r)
       \/ registerOnBlockchain_updateUser(r)

\* The next database operation of a request handler of submitKYC.
HandlerStep ==
    \/ \E q \in BagToSet(reqs) : submitKYC_create(q, MaxRecords)
    \/ \E q \in BagToSet(reqs) : submitKYC_updateUser(q)

NextHappy ==
    \/ \E u \in Users : submitKYC_noneInFlight(u)
    \/ \E u \in Users, r \in RecIds : submitKYC_conflict(u, r)
    \/ HandlerStep
    \/ \E r \in 1..MaxRecords : HappyStep(r)
    \/ \E r \in RecIds : Tick(r)
    \/ registerVerification

SpecHappy ==
    /\ Init
    /\ [][NextHappy]_vars
    /\ WF_vars(HandlerStep)
    /\ \A r \in 1..MaxRecords : WF_vars(HappyStep(r))

(***************************************************************************)
(* SpecDb: the pipeline when a database operation may throw.  A write of   *)
(* the try block of processAIVerification that throws is caught by its     *)
(* catch block; so is a throwing write of the catch block of               *)
(* issueAriesCredential, which is awaited inside that try block.  The      *)
(* timeout handler catches its own errors.  The update of the catch block  *)
(* of processAIVerification is awaited outside every try block.  (The      *)
(* operations of submitKYC and of registerOnBlockchain are taken to        *)
(* succeed here.)                                                          *)
(***************************************************************************)
\* A findByIdAndUpdate awaited in the try block of processAIVerification throws: the
\* catch block clears the timer and issues its update.
processAIVerification_updateThrows(r) ==
    /\ pipe[r].pc \in {"setProcessing", "upload", "ai", "rejectUser"}
    /\ timer' = [timer EXCEPT ![r] = ClearTimeout(@)]
    /\ pipe' = [pipe EXCEPT ![r] = [pc |-> "catch", ipfs |-> {}]]
    /\ response' = NoResponse
    /\ UNCHANGED <<records, kycStatus, stale, reqs, repair, rv, config, verify, merkle, contract>>

\* The issuer call throws and the update of the catch block of issueAriesCredential
\* throws: issueAriesCredential rejects inside the try block of processAIVerification.
issueAriesCredential_catchThrows(r) ==
    /\ pipe[r].pc = "credential"
    /\ ~SkipAries
    /\ timer' = [timer EXCEPT ![r] = ClearTimeout(@)]
    /\ pipe' = [pipe EXCEPT ![r].pc = "catch"]
    /\ response' = NoResponse
    /\ UNCHANGED <<records, kycStatus, stale, reqs, repair, rv, config, verify, merkle, contract>>

\* The update of the catch block of processAIVerification throws: the promise of
\* processAIVerification, which submitKYC did not await, is rejected.
processAIVerification_catchThrows(r) ==
    /\ pipe[r].pc = "catch"
    /\ pipe' = [pipe EXCEPT ![r].pc = "unhandledRejection"]
    /\ response' = NoResponse
    /\ UNCHANGED <<records, kycStatus, stale, timer, reqs, repair, rv, config, verify, merkle, contract>>

\* An operation of the timeout handler throws: the handler logs the error and ends.
timeout_updateThrows(r) ==
    /\ timer[r] \in {"update", "updateUser"}
    /\ timer' = [timer EXCEPT ![r] = "done"]
    /\ response' = NoResponse
    /\ UNCHANGED <<records, kycStatus, stale, pipe, reqs, repair, rv, config, verify, merkle, contract>>

\* process.on('unhandledRejection'): the server is closed and the process exits, which
\* ends every pipeline, timer and request handler.
unhandledRejection ==
    /\ \E r \in RecIds : pipe[r].pc = "unhandledRejection"
    /\ pipe' = [r \in RecIds |-> [pc |-> "exited", ipfs |-> {}]]
    /\ timer' = [r \in RecIds |->
                    IF timer[r] \in {"armed", "update", "updateUser"} THEN "cleared"
                    ELSE timer[r]]
    /\ reqs' = EmptyBag
    /\ response' = NoResponse
    /\ UNCHANGED <<records, kycStatus, stale, repair, rv, config, verify, merkle, contract>>

NextDb ==
    \/ submitKYC(Users, MaxRecords)
    \/ processAIVerification({Artifacts})
    \/ \E r \in RecIds : processAIVerification_updateThrows(r)
    \/ \E r \in RecIds : issueAriesCredential_catchThrows(r)
    \/ \E r \in RecIds : processAIVerification_catchThrows(r)
    \/ \E r \in RecIds : timeout_updateThrows(r)
    \/ unhandledRejection

SpecDb == Init /\ [][NextDb]_vars

(***************************************************************************)
(* GET /api/kyc/status/:userId (getKYCStatus) and                          *)
(* GET /api/kyc/record/:kycRecordId (getKYCStatusByRecordId), both behind  *)
(* protect: the caller is an authenticated user.                           *)
(***************************************************************************)
\* The route parameter: the id of a record (of the collection or of none), the id of
\* a user, or a string that is not an ObjectId.
RecordParam(r) == [kind |-> "record", rec |-> r, user |-> "none"]
UserParam(u) == [kind |-> "user", rec |-> 0, user |-> u]
OtherParam == [kind |-> "other", rec |-> 0, user |-> "none"]

Params ==
    {RecordParam(r) : r \in 1..(MaxRecordsTwo + 1)} \cup {UserParam(u) : u \in Callers}
        \cup {OtherParam}

\* Mutant of the authorization test: every caller may read.
MayViewAnyone(caller, u) == TRUE

\* recordUserId === req.user.id or req.user.role === 'admin'.
MayView(caller, u) == caller = u \/ caller = Admin

\* KYCRecord.findOne({ userId }).sort({ submittedAt: -1 }): the latest record of user
\* u, 0 when there is none.
Latest(u) ==
    LET own == {r \in RecIds : records[r].userId = u}
    IN  IF own = {} THEN 0 ELSE CHOOSE r \in own : \A o \in own : o <= r

\* The fields of a record that the two operations return.
KycRecordFields(r) ==
    [status      |-> records[r].status,
     aiStatus    |-> records[r].aiStatus,
     scores      |-> records[r].scores,
     cred        |-> records[r].cred,
     ledger      |-> records[r].ledger,
     completedAt |-> records[r].completedAt,
     reason      |-> records[r].reason]

\* An answer to a read: the HTTP status, the record returned (0: none) and its fields.
Read(op, caller, param, http, r) ==
    [kind |-> "read", op |-> op, caller |-> caller, param |-> param, http |-> http,
     rec |-> r, fields |-> IF r = 0 THEN <<>> ELSE <<KycRecordFields(r)>>]

\* The answer of getKYCStatus.
KYCStatus(caller, param) ==
    LET Answer(http, r) == Read("getKYCStatus", caller, param, http, r)
    IN  IF param.kind = "record" /\ param.rec \in RecIds
        THEN \* found as a record id
             IF MayView(caller, Owner(param.rec)) THEN Answer(200, param.rec)
             ELSE Answer(403, 0)
        ELSE IF param.kind = "other"
        THEN \* not an ObjectId: findOne({ userId }) throws a CastError
             IF MayView(caller, param.user) THEN Answer(500, 0) ELSE Answer(403, 0)
        ELSE \* taken as a user id
             IF MayView(caller, param.user) THEN Answer(200, Latest(param.user))
             ELSE Answer(403, 0)

getKYCStatus(caller, param) ==
    /\ response' = KYCStatus(caller, param)
    /\ UNCHANGED <<records, kycStatus, stale, pipe, timer, reqs, repair, rv, config, verify, merkle, contract>>

\* The answer of getKYCStatusByRecordId; a parameter that is not an ObjectId makes
\* findById throw a CastError.
KYCStatusByRecordId(caller, param) ==
    LET Answer(http, r) == Read("getKYCStatusByRecordId", caller, param, http, r)
    IN  IF param.kind = "other" THEN Answer(500, 0)
        ELSE IF ~(param.kind = "record" /\ param.rec \in RecIds) THEN Answer(404, 0)
        ELSE IF MayView(caller, Owner(param.rec)) THEN Answer(200, param.rec)
        ELSE Answer(403, 0)

getKYCStatusByRecordId(caller, param) ==
    /\ response' = KYCStatusByRecordId(caller, param)
    /\ UNCHANGED <<records, kycStatus, stale, pipe, timer, reqs, repair, rv, config, verify, merkle, contract>>

(***************************************************************************)
(* SpecRead: the two read operations beside submissions of both users and  *)
(* their pipelines, MaxRecordsTwo records, the development environment,    *)
(* every upload successful, runs in which the processing timer does not    *)
(* fire.                                                                   *)
(***************************************************************************)
NextRead ==
    \/ \E caller \in Callers, param \in Params : getKYCStatus(caller, param)
    \/ \E caller \in Callers, param \in Params : getKYCStatusByRecordId(caller, param)
    \/ \E u \in Users : submitKYC_noneInFlight(u)
    \/ \E u \in Users, r \in RecIds : submitKYC_conflict(u, r)
    \/ \E q \in BagToSet(reqs) : submitKYC_create(q, MaxRecordsTwo)
    \/ \E q \in BagToSet(reqs) : submitKYC_updateUser(q)
    \/ \E r \in RecIds : processAIVerification_setProcessing(r)
    \/ \E r \in RecIds : processAIVerification_upload(r, Artifacts)
    \/ \E r \in RecIds, verified \in BOOLEAN : processAIVerification_aiResult(r, verified)
    \/ \E r \in RecIds : processAIVerification_rejectUser(r)
    \/ \E r \in RecIds : issueAriesCredential(r, TRUE)
    \/ \E r \in RecIds : registerOnBlockchain_find(r)
    \/ \E r \in RecIds : registerOnBlockchain_success(r)
    \/ \E r \in RecIds : registerOnBlockchain_failure(r)
    \/ \E r \in RecIds : registerOnBlockchain_updateUser(r)

SpecRead == InitTwo /\ [][NextRead]_vars

(***************************************************************************)
(* SpecRepair: the repair operation called by anyone, beside the           *)
(* submissions and pipelines of both users, MaxRecordsTwo records, in      *)
(* production without the skip flag (where a failing issuer leaves records *)
(* at ai_verified with a rejectionReason), every upload successful, the AI *)
(* provider answering verified, runs in which the processing timer does    *)
(* not fire.                                                               *)
(***************************************************************************)
InitRepair ==
    /\ Init
    /\ nodeEnv = "production"
    /\ skipFlag = FALSE

NextRepair ==
    \/ \E u \in Users : submitKYC_noneInFlight(u)
    \/ \E u \in Users, r \in RecIds : submitKYC_conflict(u, r)
    \/ \E q \in BagToSet(reqs) : submitKYC_create(q, MaxRecordsTwo)
    \/ \E q \in BagToSet(reqs) : submitKYC_updateUser(q)
    \/ \E r \in RecIds : processAIVerification_setProcessing(r)
    \/ \E r \in RecIds : processAIVerification_upload(r, Artifacts)
    \/ \E r \in RecIds : processAIVerification_aiResult(r, TRUE)
    \/ \E r \in RecIds, ariesOk \in BOOLEAN : issueAriesCredential(r, ariesOk)
    \/ \E r \in RecIds : registerOnBlockchain_find(r)
    \/ \E r \in RecIds : registerOnBlockchain_success(r)
    \/ \E r \in RecIds : registerOnBlockchain_failure(r)
    \/ \E r \in RecIds : registerOnBlockchain_updateUser(r)
    \/ fixStuckKyc(Callers \cup {Anonymous})

SpecRepair == InitRepair /\ [][NextRepair]_vars

(***************************************************************************)
(* SpecVerify: one call of verifyDocuments, with every documents argument  *)
(* and every outcome of each request.  A request ends (axios is given a    *)
(* timeout) and a backoff delay passes (setTimeout): weak fairness of the  *)
(* steps of the call.                                                      *)
(***************************************************************************)
NextVerify ==
    \/ \E documents \in Documents : verifyDocuments_call(documents)
    \/ \E o \in ProviderOutcomes : verifyDocuments_post(o)
    \/ verifyDocuments_retry

SpecVerify == InitRepair /\ [][NextVerify]_vars /\ WF_vars(NextVerify)

(***************************************************************************)
(* SpecMerkle: createMerkleRoot called with every list of at most          *)
(* MaxLeaves file hashes, one call after another.                          *)
(***************************************************************************)
NextMerkle == \E hashes \in ListsUpTo(Leaves, MaxLeaves) : createMerkleRoot_call(hashes)

SpecMerkle == InitRepair /\ [][NextMerkle]_vars

(***************************************************************************)
(* SpecContract: the KYCVerification contract under every sequence of      *)
(* registerVerification and revokeVerification transactions, of any sender *)
(* and with any arguments, at most MaxVerifications registrations.         *)
(***************************************************************************)
NextContract ==
    \/ \E sender \in Senders, h \in VerificationHashes, u \in UserIds :
          contract_registerVerification(sender, h, u, "documentType")
    \/ \E sender \in Senders, h \in VerificationHashes :
          contract_revokeVerification(sender, h)
    \/ contract_block

SpecContract == InitRepair /\ [][NextContract]_vars

(***************************************************************************)
(* SpecStuck: user u1 in production without the skip flag, where the       *)
(* issuer or the ledger may fail and leave the record of a stopped         *)
(* pipeline in a non-terminal status; the user submits again and again and *)
(* an admin runs the repair operation again and again.  Every awaited      *)
(* operation of a pipeline, of a request handler and of a repair run       *)
(* completes (weak fairness); requests and repair runs keep arriving (weak *)
(* fairness); the ledger call of a repair run may throw, but not every     *)
(* time it is made (strong fairness of its success).  The processing timer *)
(* does not fire.                                                          *)
(***************************************************************************)
\* The next step of the pipeline of record r, with any outcome of issuer and ledger.
PipelineStep(r) ==
    /\ r \in RecIds
    /\ \/ processAIVerification_setProcessing(r)
       \/ processAIVerification_upload(r, Artifacts)
       \/ processAIVerification_aiResult(r, TRUE)
       \/ \E ariesOk \in BOOLEAN : issueAriesCredential(r, ariesOk)
       \/ registerOnBlockchain_find(r)
       \/ registerOnBlockchain_success(r)
       \/ registerOnBlockchain_failure(r)
       \/ registerOnBlockchain_updateUser(r)

\* A submission of user u1 arrives.  (No record is at ai_processing ten minutes after
\* its submission here, the timer being cleared with the write that ends that
\* status: the stuck test of submitKYC is false of every record.)
Resubmit ==
    \/ submitKYC_noneInFlight("u1")
    \/ \E r \in RecIds : submitKYC_conflict("u1", r)

\* The next database operation of a request handler of submitKYC.
ResubmitStep ==
    \/ \E q \in BagToSet(reqs) : submitKYC_create(q, MaxRecordsTwo)
    \/ \E q \in BagToSet(reqs) : submitKYC_updateUser(q)

\* A repair request of an admin arrives, or a repair run takes a step other than
\* the return of its ledger call.
RepairStep ==
    \/ fixStuckKyc_find(Admin)
    \/ fixStuckKyc_none
    \/ fixStuckKyc_credential
    \/ fixStuckKyc_updateUser

NextStuck ==
    \/ Resubmit
    \/ ResubmitStep
    \/ \E r \in 1..MaxRecordsTwo : PipelineStep(r)
    \/ \E r \in RecIds : Tick(r)
    \/ RepairStep
    \/ fixStuckKyc_success
    \/ fixStuckKyc_failure

SpecStuck ==
    /\ InitRepair
    /\ [][NextStuck]_vars
    /\ WF_vars(Resubmit)
    /\ WF_vars(ResubmitStep)
    /\ \A r \in 1..MaxRecordsTwo : WF_vars(PipelineStep(r))
    /\ WF_vars(RepairStep)
    /\ WF_vars(fixStuckKyc_success \/ fixStuckKyc_failure)
    /\ SF_vars(fixStuckKyc_success)

(***************************************************************************)
(* The claims                                                              *)
(***************************************************************************)
\* C1: no user ever has two records in a non-terminal status at the same time.
OneInFlightPerUser ==
    \A r1, r2 \in RecIds :
        (/\ r1 # r2
         /\ records[r1].userId = records[r2].userId
         /\ records[r1].status \in NonTerminal)
        => records[r2].status \notin NonTerminal

\* C2: once a record's status is rejected, no later write changes its status.
RejectedIsFinal ==
    [][\A r \in RecIds :
          records[r].status = "rejected" => records'[r].status = "rejected"]_vars

\* The order of the statuses of the pipeline; rejected ends every sequence.
Rank ==
    [submitted |-> 1, ai_processing |-> 2, ai_verified |-> 3,
     credential_issued |-> 4, completed |-> 5, rejected |-> 6]

\* C3: the statuses of a record are observed in the order submitted, ai_processing,
\* ai_verified, credential_issued, completed, with rejected last: no step moves a
\* record to an earlier status of that order.
NoBackwardTransition ==
    [][\A r \in RecIds :
          (/\ records[r].status \in DOMAIN Rank
           /\ records'[r].status \in DOMAIN Rank)
          => Rank[records[r].status] <= Rank[records'[r].status]]_vars

\* C4: the write of the timeout handler leaves a completed record completed.
TimeoutKeepsCompleted ==
    [][\A r \in RecIds :
          (/\ timer[r] = "update"
           /\ timer'[r] = "updateUser"
           /\ records[r].status = "completed")
          => records'[r].status = "completed"]_vars
\* C5 as stated: when the 5 minutes of the timeout have passed and the record is not
\* in a terminal status, in whichever stage of the pipeline, the timeout handler has
\* fired to reject the record.
TimeoutCoversEveryStage ==
    \A r \in RecIds :
        (/\ stale[r]
         /\ records[r].status \in NonTerminal
         /\ pipe[r].pc \in {"upload", "ai", "credential", "blockchainFind", "blockchainCall"})
        => timer[r] \in {"update", "updateUser", "done"}

\* C5 as amended: the timer fires only while the pipeline is before the saved AI
\* result (first update, upload, AI call); the handler then writes status rejected
\* with the timeout reason and sets the user's status to rejected; a pipeline in the
\* credential or ledger stage has no armed timer.
TimeoutForcesRejection ==
    [][\A r \in RecIds :
          /\ (timer[r] = "armed" /\ timer'[r] = "update")
             => pipe[r].pc \in {"setProcessing", "upload", "ai"}
          /\ (timer[r] = "update" /\ timer'[r] = "updateUser")
             => (records'[r].status = "rejected" /\ records'[r].reason = "timeout")
          /\ (timer[r] = "updateUser" /\ timer'[r] = "done")
             => kycStatus'[records[r].userId] = "rejected"
          /\ pipe'[r].pc \in {"credential", "blockchainFind", "blockchainCall", "verifyUser"}
             => timer'[r] # "armed"]_vars

\* C5 witness: the handler has run to its end on a record that it rejected.
TimedOutRecord ==
    \E r \in RecIds :
        /\ timer[r] = "done"
        /\ records[r].status = "rejected"
        /\ records[r].reason = "timeout"
        /\ kycStatus[records[r].userId] = "rejected"

\* C6 as stated: a submission that finds a stale in-flight record, in any non-terminal
\* status, is not answered with the conflict error.
StaleRecordNeverBlocks ==
    response.kind = "conflict" => ~stale[response.rec]

\* C6 as amended: submitKYC auto-fails the in-flight record it found exactly when the
\* record is in ai_processing and stale: the auto-fail writes rejected with the
\* timeout reason, the handler goes on to create a record with status submitted and
\* answers with the accepted response; the conflict error is never the answer to a
\* stale ai_processing record.
StaleGuardAutoFails ==
    [][/\ \A q \in BagToSet(reqs') :
             (q.pc = "autoFail" /\ CopiesIn(q, reqs') > CopiesIn(q, reqs))
             => /\ records[q.rec].userId = q.user
                /\ records[q.rec].status = "ai_processing"
                /\ stale[q.rec]
       /\ \A q \in BagToSet(reqs) :
             (q.pc = "autoFail" /\ CopiesIn(q, reqs') < CopiesIn(q, reqs))
             => /\ records'[q.rec].status = "rejected"
                /\ records'[q.rec].reason = "timeout_stale"
                /\ BagIn(Request("create", q.user, 0), reqs')
       /\ Len(records') > Len(records)
             => records'[Len(records')].status = "submitted"
       /\ BagCardinality(reqs') < BagCardinality(reqs)
             => response'.kind = "accepted"
       /\ response'.kind = "conflict"
             => ~(records[response'.rec].status = "ai_processing" /\ stale[response'.rec])]_vars

\* C6 witness: the first record was auto-failed by the stale guard and the submission
\* that found it was accepted with a second record.
ResubmittedAfterAutoFail ==
    /\ Len(records) = 2
    /\ records[1].status = "rejected"
    /\ records[1].reason = "timeout_stale"
    /\ response = Accepted(2)

\* C7: a submission that finds an in-flight record that is not stuck gets the conflict
\* response with that record's id and status, and the step changes no record, no
\* user's status, no pipeline, no timer and creates no request handler; a handler
\* passes the check only with no record found or with a stale one.
FreshConflictChangesNothing ==
    [][/\ response'.kind = "conflict"
             => /\ response'.rec \in RecIds
                /\ records[response'.rec].status \in NonTerminal
                /\ response'.status = records[response'.rec].status
                /\ UNCHANGED <<records, kycStatus, pipe, timer, reqs>>
       /\ \A q \in BagToSet(reqs') :
             (q.pc = "autoFail" /\ CopiesIn(q, reqs') > CopiesIn(q, reqs))
             => stale[q.rec]
       /\ \A q \in BagToSet(reqs') :
             (/\ q.pc = "create"
              /\ CopiesIn(q, reqs') > CopiesIn(q, reqs)
              /\ BagCardinality(reqs') > BagCardinality(reqs))
             => \A r \in RecIds :
                    records[r].userId = q.user => records[r].status \notin NonTerminal]_vars

\* C7 witness: the conflict response for a fresh in-flight record, next to another
\* record.
FreshConflict ==
    /\ response.kind = "conflict"
    /\ ~stale[response.rec]
    /\ Len(records) = 2
\* C8: when the AI provider answers "not verified" or the call throws, the pipeline
\* ends with the record rejected with a rejection reason and the user's kycStatus
\* rejected, without running the credential or the ledger stage.
AIFailureRejectsRecordAndUser ==
    [][\A r \in RecIds :
          (pipe[r].pc \in {"rejectUser", "catch"} /\ pipe'[r].pc # pipe[r].pc)
          => /\ pipe'[r].pc = "done"
             /\ records'[r].status = "rejected"
             /\ records'[r].reason # "none"
             /\ kycStatus'[records[r].userId] = "rejected"]_vars

\* C9: when the ledger call of registerOnBlockchain fails, the handler leaves the
\* record at credential_issued (neither rejected nor completed) with the failure
\* reason recorded, changes no user's status and ends the pipeline.
LedgerFailureKeepsCredentialIssued ==
    [][\A r \in RecIds :
          (pipe[r].pc = "blockchainCall" /\ pipe'[r].pc = "done")
          => /\ records'[r].status = "credential_issued"
             /\ records'[r].reason = "blockchain_failed"
             /\ records'[r].ledger = records[r].ledger
             /\ kycStatus' = kycStatus]_vars

\* C9 witness: a pipeline ended by a failed ledger call; the record is at
\* credential_issued with the failure reason and the user is still in_progress.
LedgerFailedRecord ==
    \E r \in RecIds :
        /\ pipe[r].pc = "done"
        /\ records[r].status = "credential_issued"
        /\ records[r].reason = "blockchain_failed"
        /\ ~records[r].ledger
        /\ kycStatus[records[r].userId] = "in_progress"

\* C10: a record whose ledger sub-state is populated has status completed.
LedgerOnlyWhenCompleted ==
    \A r \in RecIds : records[r].ledger => records[r].status = "completed"
\* C11: when a run of the repair operation has ended with no failed record, no record
\* is left at credential_issued with the note of a failed ledger registration.
RepairCompletesLedgerFailures ==
    (response.kind = "fixed" /\ response.failed = {})
    => \A r \in RecIds :
           ~(/\ records[r].status = "credential_issued"
             /\ records[r].reason = "blockchain_failed"
             /\ pipe[r].pc = "done")
\* C12: in production, with the issuer not skipped, the credential stage either stores
\* the credential of the issuer call that returned, or, when the call throws, leaves
\* the record at ai_verified with the failure note, stores no credential and ends the
\* pipeline before the ledger stage.
ProductionCredentialFailureStops ==
    [][\A r \in RecIds :
          (/\ nodeEnv = "production"
           /\ ~skipFlag
           /\ pipe[r].pc = "credential"
           /\ pipe'[r].pc # "credential")
          => \/ /\ records'[r].status = "credential_issued"
                /\ records'[r].cred = "real"
                /\ pipe'[r].pc = "blockchainFind"
             \/ /\ records'[r].status = "ai_verified"
                /\ records'[r].reason = "credential_failed"
                /\ records'[r].cred = "none"
                /\ records'[r].ledger = records[r].ledger
                /\ kycStatus' = kycStatus
                /\ pipe'[r].pc = "done"]_vars

\* C12 witness: in production a pipeline ended by a throwing issuer call.
CredentialFailedRecord ==
    \E r \in RecIds :
        /\ nodeEnv = "production"
        /\ ~skipFlag
        /\ pipe[r].pc = "done"
        /\ records[r].status = "ai_verified"
        /\ records[r].reason = "credential_failed"
        /\ records[r].cred = "none"
        /\ ~records[r].ledger
\* C13 as stated: in every environment other than production, with or without the skip
\* flag, the credential stage leaves the record at credential_issued with a credential
\* and the pipeline goes on to the ledger stage.
NonProductionNeverBlocks ==
    [][\A r \in RecIds :
          (/\ nodeEnv # "production"
           /\ pipe[r].pc = "credential"
           /\ pipe'[r].pc # "credential")
          => /\ records'[r].status = "credential_issued"
             /\ records'[r].cred # "none"
             /\ pipe'[r].pc = "blockchainFind"]_vars

\* C13 as amended: in the development environment, or with the skip flag set in any
\* environment, the issuer is skipped: the credential stage stores the synthetic
\* credential, leaves the record at credential_issued and goes on to the ledger stage.
DevelopmentOrSkipNeverBlocks ==
    [][\A r \in RecIds :
          (/\ (nodeEnv = "development" \/ skipFlag)
           /\ pipe[r].pc = "credential"
           /\ pipe'[r].pc # "credential")
          => /\ records'[r].status = "credential_issued"
             /\ records'[r].cred = "mock"
             /\ pipe'[r].pc = "blockchainFind"]_vars

\* C13 witness: outside development, with the skip flag, a record holds the synthetic
\* credential and its pipeline is in the ledger stage.
SyntheticCredentialIssued ==
    \E r \in RecIds :
        /\ nodeEnv # "development"
        /\ skipFlag
        /\ records[r].status = "credential_issued"
        /\ records[r].cred = "mock"
        /\ pipe[r].pc = "blockchainFind"
\* C15: no stage is skipped: a record with status completed has had status
\* credential_issued, and a record with status credential_issued has had status
\* ai_verified.
NoStageSkipped ==
    \A r \in RecIds :
        /\ records[r].status = "completed" => "credential_issued" \in records[r].had
        /\ records[r].status = "credential_issued" => "ai_verified" \in records[r].had

\* C15 witness: a record completed by the repair operation, after the timeout handler
\* had rejected it.
CompletedByRepair ==
    \E r \in RecIds :
        /\ records[r].status = "completed"
        /\ records[r].cred = "mock"
        /\ repair.pc = "verifyUser"
        /\ {"rejected", "ai_verified", "credential_issued"} \subseteq records[r].had
\* C16: the stages of a record run in the order upload, AI verification, credential
\* issuance, ledger registration, and while the external call of a stage is
\* outstanding the outcome of the previous stage is on the record: the content
\* identifiers of the upload during the AI call, status ai_verified before the issuer
\* call, status credential_issued before the ledger call.
StageOutcomePersistedBeforeNextCall ==
    \A r \in RecIds :
        /\ pipe[r].pc = "ai" => records[r].cids = pipe[r].ipfs
        /\ pipe[r].pc = "credential" => "ai_verified" \in records[r].had
        /\ pipe[r].pc \in {"blockchainFind", "blockchainCall"}
           => "credential_issued" \in records[r].had

\* C17: whatever artifacts the upload failed for, the upload stage does not reject the
\* record and the AI stage runs; when the AI stage is over, the record holds the
\* content identifier of exactly the artifacts whose upload succeeded.
UploadFailureIsNonFatal ==
    [][\A r \in RecIds :
          /\ (pipe[r].pc = "upload" /\ pipe'[r].pc # "upload")
             => (pipe'[r].pc = "ai" /\ records'[r].status = "ai_processing")
          /\ (pipe[r].pc = "ai" /\ pipe'[r].pc # "ai")
             => records'[r].cids = pipe[r].ipfs]_vars
\* C18: the integrity hashes of a record are those computed from the submission when
\* the record is created, before its pipeline starts, and no step changes them.
IntegrityHashesImmutable ==
    [][/\ \A r \in RecIds : records'[r].hashes = records[r].hashes
       /\ Len(records') > Len(records)
             => /\ records'[Len(records')].hashes.userIdHash
                       = <<"sha256", records'[Len(records')].userId>>
                /\ records'[Len(records')].hashes.merkleRoot
                       = <<"sha256", records'[Len(records')].hashes.fileHashes>>
                /\ DOMAIN records'[Len(records')].hashes.fileHashes = Artifacts
                /\ pipe'[Len(records')].pc = "idle"
                /\ timer'[Len(records')] = "off"]_vars

\* C18 witness: a record that went through the timeout handler, the pipeline and the
\* manual ledger registration still has the hashes of its creation.
HashesKeptThroughPipeline ==
    \E r \in RecIds :
        /\ {"rejected", "ai_verified", "blockchain_registered"} \subseteq records[r].had
        /\ records[r].ledger
        /\ records[r].hashes.userIdHash = <<"sha256", records[r].userId>>

\* C19: a submission with an unrecognized document type, a document number that does
\* not match the pattern of its type, or a missing required image is answered by the
\* validation middleware with a non-empty list of errors and submitKYC does not run:
\* no record is created or changed, no user status changes, no pipeline is started.
Unacceptable(req) ==
    \/ req.documentType \notin DOMAIN DOCUMENT_RULES
    \/ ~req.documentNumber.isString
    \/ ~Test(DOCUMENT_RULES[req.documentType].numberPattern, req.documentNumber.chars)
    \/ \E i \in DOMAIN DOCUMENT_RULES[req.documentType].requiredFields :
          DOCUMENT_RULES[req.documentType].requiredFields[i] \notin DOMAIN req.files

UnacceptableRequests == {req \in Requests : Unacceptable(req)}

ValidationRejectsBeforeSubmit ==
    /\ [](\A req \in UnacceptableRequests :
            Validate(req).status # 200 /\ Len(Validate(req).errors) > 0)
    /\ [][response'.kind = "invalid" =>
            /\ Len(response'.errors) > 0
            /\ UNCHANGED <<records, kycStatus, pipe, timer, reqs>>]_vars

\* A submission that lacks a required image has been rejected while the user has a
\* record in flight.
RejectedSubmission ==
    /\ response.kind = "invalid"
    /\ response.errors[1][1] = "image is required"
    /\ InFlight("u1") # {}
    /\ \E req \in UnacceptableRequests : Invalid(Validate(req)) = response

\* C14: when the AI provider answers verified, the credential stage succeeds, the
\* ledger call succeeds and no timeout fires, every record that was created becomes
\* ai_verified with the provider's scores saved, then credential_issued with a
\* credential id, then completed with the ledger fields and completedAt saved, and its
\* pipeline ends with the user's kycStatus equal to verified.
Created(r) == r \in RecIds /\ pipe[r].pc = "idle" /\ records[r].status = "submitted"

AIVerifiedState(r) ==
    /\ r \in RecIds
    /\ pipe[r].pc = "credential"
    /\ records[r].status = "ai_verified"
    /\ records[r].aiStatus = "verified"
    /\ records[r].scores = "provider"

CredentialIssuedState(r) ==
    /\ r \in RecIds
    /\ pipe[r].pc = "blockchainFind"
    /\ records[r].status = "credential_issued"
    /\ records[r].cred # "none"

CompletedState(r) ==
    /\ r \in RecIds
    /\ pipe[r].pc = "verifyUser"
    /\ records[r].status = "completed"
    /\ records[r].ledger
    /\ records[r].completedAt

PipelineEnded(r) ==
    /\ r \in RecIds
    /\ pipe[r].pc = "done"
    /\ {"ai_verified", "credential_issued", "completed"} \subseteq records[r].had
    /\ records[r].scores = "provider"
    /\ records[r].cred # "none"
    /\ records[r].ledger
    /\ records[r].completedAt
    /\ kycStatus[Owner(r)] = "verified"

HappyPathCompletes ==
    \A r \in 1..MaxRecords :
        /\ Created(r) ~> AIVerifiedState(r)
        /\ AIVerifiedState(r) ~> CredentialIssuedState(r)
        /\ CredentialIssuedState(r) ~> CompletedState(r)
        /\ CompletedState(r) ~> PipelineEnded(r)

\* A record has gone through the whole pipeline and is completed.
HappyPathCompleted ==
    \E r \in RecIds : PipelineEnded(r) /\ records[r].status = "completed"

\* C20: every failure inside the background pipeline is caught, also a failing write
\* inside an error handler or inside the timeout handler: the promise returned by
\* processAIVerification is never rejected and the process-level unhandledRejection
\* handler is never triggered by a pipeline.
PipelinePromiseNeverRejects ==
    \A r \in RecIds : pipe[r].pc # "unhandledRejection"

\* C21: getKYCStatus and getKYCStatusByRecordId return the fields of a record only to
\* its owner or to an admin; a caller who is neither, asking for an existing record
\* by its id or for another user's status by the user's id, gets 403 and no field.
OnlyOwnerOrAdminReads ==
    response.kind = "read" =>
        /\ response.fields # <<>> =>
              /\ response.http = 200
              /\ response.rec \in RecIds
              /\ response.fields = <<KycRecordFields(response.rec)>>
              /\ response.caller \in {records[response.rec].userId, Admin}
        /\ ( /\ response.caller # Admin
             /\ \/ /\ response.param.kind = "record"
                   /\ response.param.rec \in RecIds
                   /\ records[response.param.rec].userId # response.caller
                \/ /\ response.op = "getKYCStatus"
                   /\ response.param.kind = "user"
                   /\ response.param.user # response.caller )
           => response.http = 403 /\ response.fields = <<>>

\* A user has asked for the record of another user by its id and got 403.
ForbiddenRead ==
    /\ response.kind = "read"
    /\ response.http = 403
    /\ response.caller \in Users
    /\ response.param.kind = "record"
    /\ response.param.rec \in RecIds
    /\ records[response.param.rec].userId # response.caller
    /\ records[response.param.rec].status = "completed"

\* C22: the status of every record is always one of submitted, ai_processing,
\* ai_verified, credential_issued, completed, rejected, and no step of
\* registerVerification, which a client invokes on an existing record, changes the
\* status of a record.
StatusOnlyByPipeline ==
    /\ [](\A r \in RecIds :
            records[r].status \in {"submitted", "ai_processing", "ai_verified",
                                   "credential_issued", "completed", "rejected"})
    /\ [][rv.pc = "blockchainCall" /\ rv'.pc = "idle" =>
            \A r \in RecIds : records'[r].status = records[r].status]_vars

\* C23: completedAt is a terminal-only timestamp: a record with completedAt set has
\* status completed or rejected.
CompletedAtOnlyWhenTerminal ==
    \A r \in RecIds :
        records[r].completedAt => records[r].status \in {"completed", "rejected"}

\* C24: the timer of a record is cancelled on every exit path of its pipeline (AI
\* verified, AI not verified, exception): once the pipeline has got the outcome of the
\* AI stage no timeout is pending, and the timeout handler starts only while the
\* pipeline is still before that outcome.
AfterAIStage == {"credential", "blockchainFind", "blockchainCall", "verifyUser",
                 "rejectUser", "catch", "done"}

TimerCancelledOnEveryExit ==
    /\ [](\A r \in RecIds : pipe[r].pc \in AfterAIStage => timer[r] # "armed")
    /\ [][\A r \in RecIds :
            timer[r] = "armed" /\ timer'[r] = "update" => pipe[r].pc \notin AfterAIStage]_vars

\* A pipeline has ended with the record rejected by the AI stage and its timer
\* cancelled before it fired.
PipelineEndedTimerCancelled ==
    \E r \in RecIds :
        /\ pipe[r].pc = "done"
        /\ records[r].status = "rejected"
        /\ records[r].reason \in {"ai_failed", "ai_error"}
        /\ timer[r] = "cleared"

\* The records a running repair has selected: those it has reported and those it
\* still has to process.
RepairSelected == repair.fixed \cup repair.failed \cup {repair.queue[i] : i \in 1..Len(repair.queue)}

\* C25: the repair operation treats every selected record independently: while the
\* loop runs no selected record is in both lists and the selected records stay the
\* same; a ledger failure on one record moves the loop to the next; the response
\* lists every selected record in exactly one of fixed and failed; and a record is
\* reported fixed only when it has been completed with its ledger sub-state.
RepairTreatsRecordsIndependently ==
    /\ [](/\ repair.fixed \cap repair.failed = {}
          /\ \A i \in 1..Len(repair.queue) :
                /\ repair.queue[i] \notin repair.fixed \cup repair.failed
                /\ \A j \in 1..Len(repair.queue) : repair.queue[i] = repair.queue[j] => i = j)
    /\ [][/\ repair.pc # "idle" /\ repair'.pc # "idle" => RepairSelected' = RepairSelected
          /\ repair.pc = "blockchainCall" /\ repair' # repair /\ repair'.pc # "verifyUser"
                /\ Len(repair.queue) > 1
             => /\ repair'.pc = "credential"
                /\ repair'.queue = Tail(repair.queue)
                /\ Head(repair.queue) \in repair'.failed
          /\ repair.pc # "idle" /\ repair'.pc = "idle"
             => /\ response'.kind = "fixed"
                /\ response'.fixed \cup response'.failed = RepairSelected
                /\ response'.fixed \cap response'.failed = {}
                /\ \A r \in response'.fixed :
                      "completed" \in records'[r].had /\ records'[r].ledger]_vars

\* C25 witness: a repair of two records has reported one fixed and the other failed.
RepairFixedOneFailedOther ==
    /\ response.kind = "fixed"
    /\ response.fixed # {}
    /\ response.failed # {}

\* C26: only a caller holding the admin role triggers the repair: the repair writes
\* a record only for an admin caller.
RepairOnlyByAdmin ==
    [][repair.pc = "credential" /\ records' # records /\ repair'.pc = "blockchainCall"
       => repair.caller = Admin]_vars


\* The payloads of the ledger calls in flight, each with the user id it is passed with.
LedgerCalls ==
    {<<records[r].userId, BlockchainData(records[r])>> :
        r \in {x \in RecIds : pipe[x].pc = "blockchainCall"}}
    \cup {<<records[r].userId, FixBlockchainData(records[r])>> :
        r \in {x \in RecIds : repair.pc = "blockchainCall" /\ x = Head(repair.queue)}}

\* C27: the payload the pipeline and the repair operation pass to the ledger call has
\* the document-number hash and not the raw document number, and the values
\* committed on-chain do not depend on the raw number of the payload.
RawNumberNeverLeaves ==
    \A c \in LedgerCalls :
        /\ "documentNumberHash" \in DOMAIN c[2]
        /\ "documentNumber" \notin DOMAIN c[2]
        /\ \A n \in {"documentNumber", "otherNumber"} :
              OnChain(c[1], [documentNumber |-> n] @@ c[2])
                  = OnChain(c[1], [k \in DOMAIN c[2] \ {"documentNumber"} |-> c[2][k]])


\* The outcomes after which the function may retry: a network error or a 5xx response.
Retriable == {"5xx", "ECONNREFUSED", "ETIMEDOUT"}

\* C28: verifyDocuments posts to the AI provider at most 3 times, posts again only
\* after a network error or a 5xx response and never after a 4xx response, and every
\* call ends with a result or a thrown error.
VerifyDocumentsRetriesBounded ==
    /\ [](/\ Len(verify.log) <= 3
          /\ verify.retryCount <= 2
          /\ verify.pc \in {"returned", "thrown"} <=> verify.out # "none")
    /\ [][/\ verify.pc = "backoff" /\ verify'.pc = "post"
             => verify.log[Len(verify.log)] \in Retriable
          /\ Len(verify'.log) > Len(verify.log) /\ verify'.log[Len(verify'.log)] \notin Retriable
             => verify'.pc \in {"returned", "thrown"}
          /\ verify.pc \in {"returned", "thrown"} => verify' = verify]_vars
    /\ (verify.pc \in {"post", "backoff"} ~> verify.pc \in {"returned", "thrown"})

\* C28 witness: the third request, after two retries, was answered with a result.
ThirdRequestAnswered ==
    /\ verify.pc = "returned"
    /\ Len(verify.log) = 3
    /\ verify.retryCount = 2


\* The reference Merkle operator: an odd level gets its last hash once more, adjacent
\* hashes are paired, and the level of the pairs' hashes is reduced in the same way.
RECURSIVE MerkleReference(_)
MerkleReference(level) ==
    IF level = <<>> THEN <<"sha256", "empty">>
    ELSE IF Len(level) = 1 THEN level[1]
    ELSE LET even == IF Len(level) % 2 = 1 THEN Append(level, level[Len(level)]) ELSE level
         IN MerkleReference([k \in 1..(Len(even) \div 2) |->
                                <<"sha256", even[2 * k - 1] \o even[2 * k]>>])

\* C29: createMerkleRoot returns the hash of the sentinel for the empty list, h for
\* [h], H(H(h1.h2).H(h3.h3)) for [h1, h2, h3], and the root of the reference Merkle
\* operator for every list.
MerkleRootIsReference ==
    merkle.pc = "returned" =>
        /\ merkle.root = MerkleReference(merkle.hashes)
        /\ Len(merkle.hashes) = 0 => merkle.root = <<"sha256", "empty">>
        /\ Len(merkle.hashes) = 1 => merkle.root = merkle.hashes[1]
        /\ Len(merkle.hashes) = 3 =>
              merkle.root = <<"sha256",
                                <<"sha256", merkle.hashes[1] \o merkle.hashes[2]>>
                                \o <<"sha256", merkle.hashes[3] \o merkle.hashes[3]>> >>

\* C29 witness: the root of a list of five hashes, odd at its first and second level.
MerkleRootOfOddLevels ==
    /\ merkle.pc = "returned"
    /\ Len(merkle.hashes) = 5
    /\ merkle.root = MerkleReference(merkle.hashes)

\* List s with its elements at positions i and j exchanged.
Swap(s, i, j) == [s EXCEPT ![i] = s[j], ![j] = s[i]]

VerificationsImmutable ==
    [][\A h \in VerificationHashes :
          contract.verifications[h].timestamp # 0
              => /\ contract'.verifications[h].userId = contract.verifications[h].userId
                 /\ contract'.verifications[h].documentType
                        = contract.verifications[h].documentType
                 /\ contract'.verifications[h].timestamp
                        = contract.verifications[h].timestamp
                 /\ contract'.verifications[h].verifier
                        = contract.verifications[h].verifier
                 /\ contract'.verifications[h].isValid # contract.verifications[h].isValid
                        => contract.verifications[h].isValid]_vars

\* C39: isVerified(u) is true exactly when a verification stored for u is valid.
IsVerifiedIffValidVerification ==
    \A u \in UserIds :
        isVerified(u) <=> \E h \in VerificationHashes :
                              /\ contract.verifications[h].isValid
                              /\ contract.verifications[h].userId = u


\* The content identifiers a ledger payload carries.
PayloadCIDs(data) == IF "ipfsCIDs" \in DOMAIN data THEN data.ipfsCIDs ELSE {}

\* C32: the payload registerOnBlockchain passes to the ledger call has the content
\* identifier of every artifact whose upload succeeded, also when the front upload
\* failed and another upload succeeded.
PayloadHasEveryContentId ==
    \A r \in RecIds :
        pipe[r].pc = "blockchainCall"
            => records[r].cids \subseteq PayloadCIDs(BlockchainData(records[r]))


\* The first record of the user is in a non-terminal status and its pipeline has
\* stopped.
StuckAndStopped ==
    /\ Len(records) = 1
    /\ records[1].status \in NonTerminal
    /\ pipe[1].pc = "done"

\* C33: no user is locked out for ever: when the user's in-flight record is stuck in
\* a non-terminal status with its pipeline stopped, and the user keeps submitting
\* and the repair operation keeps running, a new submission is eventually accepted
\* (a second record of the user is created).
NoUserLockedOut == StuckAndStopped ~> Len(records) > 1

\* C38: a stuck record on which a repair run fails is still selected by the query
\* of the next run, and a later run with a working ledger completes it.
RepairCanBeRerun ==
    /\ [][repair.pc = "blockchainCall" /\ repair' # repair /\ records' = records
             => Head(repair.queue) \in StuckRecords']_vars
    /\ \A r \in 1..MaxRecordsTwo :
          (r \in RecIds /\ response.kind = "fixed" /\ r \in response.failed)
              ~> (r \in RecIds /\ records[r].status = "completed")


\* C34: whenever the ledger registration call is issued for a record, by the
\* pipeline, by the repair operation or by registerVerification, the AI sub-state
\* of the record is verified.
LedgerCallOnlyAfterAIVerified ==
    [][/\ \A r \in RecIds :
             pipe[r].pc # "blockchainCall" /\ pipe'[r].pc = "blockchainCall"
                 => records'[r].aiStatus = "verified"
       /\ repair.pc # "blockchainCall" /\ repair'.pc = "blockchainCall"
             => records'[Head(repair'.queue)].aiStatus = "verified"
       /\ rv.pc # "blockchainCall" /\ rv'.pc = "blockchainCall"
             => records'[rv'.rec].aiStatus = "verified"]_vars


\* C35: at most one successful ledger registration call is made per record: a
\* ledger call of the pipeline, of the repair operation or of registerVerification
\* that returns does so for a record that has no ledger sub-state yet.
AtMostOneLedgerRegistration ==
    [][/\ \A r \in RecIds :
             pipe[r].pc = "blockchainCall" /\ pipe'[r].pc = "verifyUser"
                 => ~records[r].ledger
       /\ repair.pc = "blockchainCall" /\ repair'.pc = "verifyUser"
             => ~records[Head(repair.queue)].ledger
       /\ rv.pc = "blockchainCall" /\ records' # records
             => ~records[rv.rec].ledger]_vars


\* No submission, pipeline, timeout handler or repair run is in progress for user u.
NothingInProgress(u) ==
    /\ \A q \in BagToSet(reqs) : q.user # u
    /\ \A r \in RecIds :
          Owner(r) = u => pipe[r].pc = "done" /\ timer[r] \in {"cleared", "done"}
    /\ repair.pc = "idle"

\* The kycStatus that goes with the status of a record.
KycStatusOf(status) ==
    IF status = "completed" THEN "verified"
    ELSE IF status = "rejected" THEN "rejected"
    ELSE "in_progress"

\* C36: whenever nothing is in progress for a user who has a record, the user's
\* kycStatus agrees with the status of the user's most recent record: verified if
\* completed, rejected if rejected, in_progress if non-terminal.
KycStatusAgreesWithLatestRecord ==
    \A u \in Users :
        /\ Latest(u) # 0
        /\ NothingInProgress(u)
        /\ records[Latest(u)].status \in NonTerminal \cup {"completed", "rejected"}
        => kycStatus[u] = KycStatusOf(records[Latest(u)].status)


\* C37: a record whose status is ai_verified, credential_issued or completed has
\* aiVerification.status verified, and a record whose aiVerification.status is
\* failed has status rejected.
AISubStateAgreesWithStatus ==
    \A r \in RecIds :
        /\ records[r].status \in {"ai_verified", "credential_issued", "completed"}
              => records[r].aiStatus = "verified"
        /\ records[r].aiStatus = "failed" => records[r].status = "rejected"


\* C40: every submission that passes validateKYCSubmission, for a user with no
\* in-flight record, results in a created record with status submitted and the
\* document type of the request, and in a started pipeline, for every document
\* type the validator accepts.
ValidSubmissionCreatesRecord ==
    [][\A q \in BagToSet(reqs) :
          CopiesIn(q, reqs') < CopiesIn(q, reqs)
              => /\ q.pc = "create"
                    => /\ Len(records') = Len(records) + 1
                       /\ records'[Len(records')].status = "submitted"
                       /\ records'[Len(records')].documentType = q.documentType
                       /\ records'[Len(records')].userId = q.user
                 /\ q.pc = "updateUser"
                    => /\ pipe'[q.rec].pc = "setProcessing"
                       /\ response' = Accepted(q.rec)]_vars

====
